---- MODULE Spec2Model ----
(***************************************************************************)
(* State-machine model of the geany-lsp client core: the code-action /     *)
(* command requester (lsp-command.c), the save orchestrator and the host    *)
(* event handlers (lsp-main.c) and the code-lens requester                  *)
(* (lsp-code-lens.c).  Every action is one event-loop callback of the       *)
(* plugin, run to completion (the plugin is single threaded).               *)
(***************************************************************************)
EXTENDS Integers, Sequences, FiniteSets, TLC

\* ------------------------------------------------------------------ bounds
\* longest code-action response array the server sends
MaxResp == 2
\* most RPC requests in flight at once (new user events are refused beyond it)
MaxPending == 2
\* most code-lens retry timers pending at once (new activations are refused beyond it)
MaxTimers == 2
\* longest code-lens response array the server sends
MaxLens == 2
\* the longest textDocument/codeLens response the annotation specification draws
MaxLensItems == 3
MaxText == 3
MaxRefresh == 2
\* most request ids the registry specification issues
MaxIds == 3

\* ------------------------------------------------------------------ values
\* a NULL gchar* / absent JSON string member
NULL == "NULL"

VARIABLES
    config,                  \* srv->config of the document's server (LspServerConfig)
    srvState,                \* lifecycle of the document's server: stopped, starting, running, crashed
    docValid,                \* DOC_VALID(doc): the document is still open in the editor
    docOpen,                 \* lsp_sync_is_document_open(doc)
    code_actions_performed,  \* document data CODE_ACTIONS_PERFORMED: [exists, names]
    code_actions,            \* lsp-command.c: static GPtrArray *code_actions
    pending,                 \* RPC requests in flight, counted by (method, callback)
    gone,                    \* requests in flight whose server terminated (only an error can resolve them)
    menu,                    \* commands attached to the items of the commands context menu
    commands,                \* lsp-code-lens.c: static GPtrArray *commands
    annotations,             \* Scintilla EOL annotation text per line
    retryTimers,             \* pending plugin_timeout_add(retry_cb) timers
    docCurrent,              \* doc == document_get_current()
    styleOffset,             \* SCI_EOLANNOTATIONGETSTYLEOFFSET of the document's editor (0: not allocated)
    last_click_line,         \* line of lsp-main.c: static gint last_click_pos
    trace,                   \* effects emitted by the last callback, in order (observation)
    performLog,              \* titles performed since the performed-title set was created (observation)
    offered,                 \* matching titles delivered to the save loop since then (observation)
    delivered,               \* <<list>> handed to the resolved callback by the last callback, else <<>> (observation)
    lastRaw,                 \* <<response>> parsed by the last callback, else <<>> (observation)
    use_incremental_sync,    \* srv->use_incremental_sync: the server asked for incremental text sync
    buffer,                  \* sci_get_contents(doc->editor->sci): the text of the document's buffer
    serverText,              \* the text the server holds for the document after the notifications sent so far (observation)
    changes,                 \* the content changes of the didChange notifications sent by the last callback (observation)
    update_source,           \* document data UPDATE_SOURCE_DOC_DATA is not 0: the id of a refresh timer is stored
    refreshTimers,           \* pending plugin_timeout_add(300, on_update_idle, doc) timers
    real_path,               \* doc->real_path: the file the document is saved under
    serverUri,               \* the path under which the server holds the document open, else NULL (observation)
    filetype,                \* doc->file_type: the filetype of the document
    altSrvState,             \* lifecycle of the server of the filetypes the document does not have
    altServerUri,            \* the path under which that other server holds the document open, else NULL (observation)
    rpc,                     \* the request registry of the RPC channel: [registry, issued, fired, nextId]
    opened,                  \* the texts of the didOpen notifications sent by the last callback (observation)
    menuOwner,               \* per item of the commands menu, the cache that owns its command, or "freed" (observation)
    command_item_sensitive,  \* context_menu_items.command_item is sensitive: its items can be activated
    unsaved,                 \* the buffer holds changes applied by the plugin (workspace edits, formatting) that are not saved yet (observation)
    owed,                    \* performCommand calls with a callback whose callback has not fired yet (observation)
    input                    \* the response array code_action_cb's loop is applied to (normalisation specification)

vars == <<config, srvState, docValid, docOpen, code_actions_performed, code_actions,
          pending, gone, menu, commands, annotations, retryTimers, docCurrent,
          styleOffset, last_click_line, trace,
          performLog, offered, delivered, lastRaw, use_incremental_sync, buffer, serverText,
          changes, update_source, refreshTimers, real_path, serverUri, filetype, altSrvState,
          altServerUri, rpc, opened, menuOwner, command_item_sensitive, unsaved, owed, input>>

\* ------------------------------------------------------------------ data
Titles == {"Organize Imports", "Add License", "Fix All"}

\* srv->config.command_on_save_regex values used by the model (NULL: not configured)
Patterns == {NULL, "organize", ".*"}

\* the titles of the code-lens commands of the model
LensTitles == {"Run", "Debug", "Run other"}

\* the titles a pattern matches under G_REGEX_CASELESS
MatchSet(pattern) ==
    CASE pattern = "organize" -> {"Organize Imports"}
      [] pattern = ".*" -> Titles \cup LensTitles
      [] OTHER -> {}

\* g_regex_match_simple(pattern, title, G_REGEX_CASELESS, G_REGEX_MATCH_NOTEMPTY);
\* a NULL pattern or string fails glib's precondition check and matches nothing
g_regex_match_simple(pattern, title) ==
    /\ pattern # NULL
    /\ title # NULL
    /\ title # ""
    /\ title \in MatchSet(pattern)

\* the (method, completion callback) pairs of lsp_rpc_call the model tracks
ReqCodeActionSave == "codeAction/on_code_actions_received"
ReqCodeActionMenu == "codeAction/update_command_menu_items"
ReqExecuteSave == "executeCommand/on_command_performed"
ReqFormatSave == "formatting/on_save_finish"
ReqCodeLens == "codeLens/code_lens_cb"
ReqExecuteNone == "executeCommand/NULL"
ReqCodeLensOther == "codeLens/code_lens_cb (other document)"
ReqCodeActionKb == "codeAction/on_code_actions_received_kb"
ReqKinds == {ReqCodeActionSave, ReqCodeActionMenu, ReqCodeActionKb, ReqExecuteSave,
             ReqExecuteNone, ReqFormatSave, ReqCodeLens, ReqCodeLensOther}

\* one element of a textDocument/codeAction response array, as JSON:
\*   title     "title" member (NULL: absent)
\*   cmdType   "command" member: absent, a string (Command shape) or an object (CodeAction shape)
\*   cmdId     the string, or the object's own "command" member (NULL: absent)
\*   arguments an "arguments" member is present beside the command identifier
\*   edit      "edit" member (NULL: absent)
Entry(title, cmdType, cmdId, arguments, edit) ==
    [title |-> title, cmdType |-> cmdType, cmdId |-> cmdId, arguments |-> arguments, edit |-> edit]

\* the response elements the save-loop specification draws from
SaveEntries ==
    { Entry("Organize Imports", "string", "java.organize", TRUE, NULL),
      Entry("Add License", "absent", NULL, FALSE, "edit:license"),
      Entry("Fix All", "object", "fix.all", TRUE, "edit:fix") }

\* every shape of a response element (the normalisation specification draws from these)
ShapedEntries ==
    { e \in { Entry(t, ct, id, FALSE, ed) :
                t \in {NULL, "Fix All", "Add License"}, ct \in {"absent", "string", "object"},
                id \in {NULL, "fix.all"}, ed \in {NULL, "edit:fix"} } :
        /\ e.cmdType = "absent" => e.cmdId = NULL
        /\ e.cmdType = "string" => e.cmdId # NULL }

\* sequences over S of length at most n
RECURSIVE SeqsUpTo(_, _)
SeqsUpTo(S, n) ==
    IF n = 0 THEN {<<>>}
    ELSE LET shorter == SeqsUpTo(S, n - 1)
         IN shorter \cup { Append(q, x) : q \in { r \in shorter : Len(r) = n - 1 }, x \in S }

\* LspCommand
Command(title, command, arguments, edit, line) ==
    [title |-> title, command |-> command, arguments |-> arguments, edit |-> edit, line |-> line]

Range(q) == { q[i] : i \in 1..Len(q) }

\* ------------------------------------------------------------------ program state
\* The program state as one record, so that a handler is a function from state to
\* state and a handler that calls another one composes them.  The observations of
\* the last callback (trace, delivered, lastRaw) start empty in every callback.
Cur ==
    [config |-> config, srvState |-> srvState, docValid |-> docValid, docOpen |-> docOpen,
     code_actions_performed |-> code_actions_performed, code_actions |-> code_actions,
     pending |-> pending, gone |-> gone, menu |-> menu, commands |-> commands,
     annotations |-> annotations, retryTimers |-> retryTimers, docCurrent |-> docCurrent,
     styleOffset |-> styleOffset, last_click_line |-> last_click_line,
     trace |-> <<>>, performLog |-> performLog, offered |-> offered,
     delivered |-> <<>>, lastRaw |-> <<>>,
     use_incremental_sync |-> use_incremental_sync, owed |-> owed,
     unsaved |-> unsaved,
     command_item_sensitive |-> command_item_sensitive,
     menuOwner |-> menuOwner,
     opened |-> <<>>,
     rpc |-> rpc,
     altServerUri |-> altServerUri,
     altSrvState |-> altSrvState,
     filetype |-> filetype,
     serverUri |-> serverUri,
     real_path |-> real_path,
     refreshTimers |-> refreshTimers,
     update_source |-> update_source,
     changes |-> <<>>,
     serverText |-> serverText,
     buffer |-> buffer]

Commit(s) ==
    /\ config' = s.config
    /\ srvState' = s.srvState
    /\ docValid' = s.docValid
    /\ docOpen' = s.docOpen
    /\ code_actions_performed' = s.code_actions_performed
    /\ code_actions' = s.code_actions
    /\ pending' = s.pending
    /\ gone' = s.gone
    /\ menu' = s.menu
    /\ commands' = s.commands
    /\ annotations' = s.annotations
    /\ retryTimers' = s.retryTimers
    /\ docCurrent' = s.docCurrent
    /\ styleOffset' = s.styleOffset
    /\ last_click_line' = s.last_click_line
    /\ trace' = s.trace
    /\ performLog' = s.performLog
    /\ offered' = s.offered
    /\ delivered' = s.delivered
    /\ lastRaw' = s.lastRaw
    /\ use_incremental_sync' = s.use_incremental_sync
    /\ buffer' = s.buffer
    /\ serverText' = s.serverText
    /\ changes' = s.changes
    /\ update_source' = s.update_source
    /\ refreshTimers' = s.refreshTimers
    /\ real_path' = s.real_path
    /\ serverUri' = s.serverUri
    /\ filetype' = s.filetype
    /\ altSrvState' = s.altSrvState
    /\ altServerUri' = s.altServerUri
    /\ rpc' = s.rpc
    /\ opened' = s.opened
    /\ menuOwner' = s.menuOwner
    /\ command_item_sensitive' = s.command_item_sensitive
    /\ unsaved' = s.unsaved
    /\ owed' = s.owed
    /\ input' = input

\* an effect the plugin has on its collaborators: a message on the transport, an
\* edit of the buffer, a save of the file
Emit(s, kind, detail) == [s EXCEPT !.trace = Append(@, <<kind, detail>>)]

InFlight(s) ==
    LET RECURSIVE Sum(_)
        Sum(K) == IF K = {} THEN 0
                  ELSE LET k == CHOOSE x \in K : TRUE
                       IN s.pending[k] + s.gone[k] + Sum(K \ {k})
    IN Sum(ReqKinds)

\* lsp_rpc_call(server, method, params, callback, user_data): writes the request and
\* records the callback until the response arrives
lsp_rpc_call(s, method, kind) ==
    [Emit(s, "request", method) EXCEPT !.pending[kind] = @ + 1]

\* lsp_server_get_if_running(doc): the session, only in the running state
lsp_server_get_if_running(s) == s.srvState = "running"

\* lsp_server_get(doc): the "get or start" accessor; it launches a stopped server and
\* returns NULL until the handshake is done (lsp-main.c:453)
lsp_server_get_started(s) ==
    IF s.srvState = "stopped" THEN [s EXCEPT !.srvState = "starting"] ELSE s

\* lsp_server_is_usable(doc): a server is configured for the document and is not dead
lsp_server_is_usable(s) == s.srvState # "crashed"

\* lsp_sync_text_document_did_open(srv, doc)
lsp_sync_text_document_did_open(s) ==
    [Emit(s, "notify", "textDocument/didOpen") EXCEPT !.docOpen = TRUE,
                                                      !.opened = Append(@, s.buffer),
                                                      !.serverText = s.buffer,
                                                      !.serverUri = s.real_path]

\* lsp_sync_text_document_did_close(srv, doc)
lsp_sync_text_document_did_close(s) ==
    [Emit(s, "notify", "textDocument/didClose") EXCEPT
        !.docOpen = FALSE,
        !.serverText = IF s.serverUri = s.real_path THEN <<>> ELSE @,
        !.serverUri = IF @ = s.real_path THEN NULL ELSE @]

\* ------------------------------------------------------------------ lsp-command.c
\* the owners of the menu items after the commands of a cache were freed
Freed(owners, cache) ==
    [i \in 1..Len(owners) |-> IF owners[i] = cache THEN "freed" ELSE owners[i]]

\* lsp_command_send_code_action_init: frees the previous array with its commands and
\* allocates an empty one
lsp_command_send_code_action_init(s) ==
    [s EXCEPT !.code_actions = <<>>, !.menuOwner = Freed(@, "code_actions")]

\* a loop body that accepts an element only with a command identifier
code_action_parse_entry_command_only(arr, e) ==
    LET title == e.title
        is_command == e.cmdType = "string"
        command == IF is_command THEN e.cmdId
                   ELSE IF e.cmdType = "object" THEN e.cmdId ELSE NULL
        edit == IF is_command THEN NULL ELSE e.edit
        arguments == IF e.cmdType = "absent" THEN FALSE ELSE e.arguments
    IN IF title # NULL /\ command # NULL
       THEN Append(arr, Command(title, command, arguments, edit, 0))
       ELSE arr

\* one iteration of code_action_cb's loop over the response array
code_action_parse_entry(arr, e) ==
    LET title == e.title
        is_command == e.cmdType = "string"
        command == IF is_command THEN e.cmdId
                   ELSE IF e.cmdType = "object" THEN e.cmdId ELSE NULL
        edit == IF is_command THEN NULL ELSE e.edit
        arguments == IF e.cmdType = "absent" THEN FALSE ELSE e.arguments
    IN IF title # NULL /\ (command # NULL \/ edit # NULL)
       THEN Append(arr, Command(title, command, arguments, edit, 0))
       ELSE arr

\* code_action_cb's loop: g_variant_iter_loop over return_value, appending to code_actions
RECURSIVE code_action_parse(_, _, _)
code_action_parse(arr, items, i) ==
    IF i > Len(items) THEN arr
    ELSE code_action_parse(code_action_parse_entry(arr, items[i]), items, i + 1)

RECURSIVE on_code_actions_received(_, _)
RECURSIVE on_code_actions_received_kb(_, _)
RECURSIVE lsp_command_send_code_action_request(_, _)
RECURSIVE on_document_before_save(_)

\* the CODE_ACTIONS_PERFORMED document data: absent, or a GPtrArray of titles
NoSet == [exists |-> FALSE, names |-> <<>>]
EmptySet == [exists |-> TRUE, names |-> <<>>]

\* update_command_menu_items (lsp-main.c): rebuilds the commands menu from the
\* code-action commands and the code-lens commands of the clicked line
update_command_menu_items(s, code_action_commands) ==
    LET code_lens_commands == SelectSeq(s.commands, LAMBDA c : c.line = s.last_click_line)
        items == code_action_commands \o code_lens_commands
    IN [s EXCEPT !.menu = items,
                 !.menuOwner = [i \in 1..Len(items) |->
                                   IF i <= Len(code_action_commands) THEN "code_actions"
                                   ELSE "commands"],
                 !.command_item_sensitive = items # <<>>]

\* the call of a code-action request's resolved callback: the requester reads the
\* result list of lsp_command_get_resolved_code_actions()
actions_resolved_cb(s, kind) ==
    LET s1 == [s EXCEPT !.delivered = <<s.code_actions>>]
    IN IF kind = ReqCodeActionSave THEN on_code_actions_received(s1, s1.code_actions)
       ELSE IF kind = ReqCodeActionKb THEN on_code_actions_received_kb(s1, s1.code_actions)
       ELSE update_command_menu_items(s1, s1.code_actions)

\* code_action_cb(return_value, error, user_data); a response is
\* [error, isArray, items]: a JSON-RPC error, or a result that is an array or not
code_action_cb(s, resp, kind) ==
    IF resp.error THEN s
    ELSE LET s1 == IF resp.isArray
                   THEN [s EXCEPT !.code_actions = code_action_parse(@, resp.items, 1),
                                  !.lastRaw = <<resp.items>>]
                   ELSE [s EXCEPT !.lastRaw = <<resp.items>>]
         IN actions_resolved_cb(s1, kind)

\* a request that, without a session, hands over the previous result list
lsp_command_send_code_action_request_stale(s, kind) ==
    LET srv == lsp_server_get_if_running(s)
    IN IF ~srv THEN actions_resolved_cb(s, kind)
       ELSE lsp_rpc_call(lsp_command_send_code_action_init(s), "textDocument/codeAction", kind)

\* lsp_command_send_code_action_request(pos, actions_resolved_cb)
lsp_command_send_code_action_request(s, kind) ==
    LET srv == lsp_server_get_if_running(s)
        s1 == lsp_command_send_code_action_init(s)
    IN IF ~srv THEN actions_resolved_cb(s1, kind)
       ELSE lsp_rpc_call(s1, "textDocument/codeAction", kind)

\* a completion callback that asks again without looking at the document
on_command_performed_unchecked(s) == lsp_command_send_code_action_request(s, ReqCodeActionSave)

\* on_command_performed(doc)
on_command_performed(s) ==
    IF s.docValid THEN lsp_command_send_code_action_request(s, ReqCodeActionSave) ELSE s

\* a perform that never reports completion
perform_done_never(s, callback) == s

\* the completion callback of performCommand; callback is NULL or on_command_performed
perform_done(s, callback) ==
    IF callback = NULL THEN s
    ELSE on_command_performed([s EXCEPT !.owed = @ - 1])

\* lsp_utils_apply_workspace_edit(edit): the edit changes the buffer
lsp_utils_apply_workspace_edit(s, edit) ==
    [Emit(s, "applyEdit", edit) EXCEPT !.unsaved = TRUE]

\* a perform that sends workspace/executeCommand before it applies the edit
lsp_command_perform_exec_first(s, cmd, callback) ==
    LET s0 == IF callback = NULL THEN s ELSE [s EXCEPT !.owed = @ + 1]
        s1 == IF cmd.command # NULL
              THEN lsp_rpc_call(s0, "workspace/executeCommand",
                                IF callback = NULL THEN ReqExecuteNone ELSE ReqExecuteSave)
              ELSE s0
        s2 == IF cmd.edit # NULL THEN lsp_utils_apply_workspace_edit(s1, cmd.edit) ELSE s1
    IN IF cmd.command # NULL THEN s2 ELSE perform_done(s2, callback)

\* lsp_command_perform(server, cmd, callback, user_data)
lsp_command_perform(s, cmd, callback) ==
    LET s0 == IF callback = NULL THEN s ELSE [s EXCEPT !.owed = @ + 1]
        s1 == IF cmd.edit # NULL THEN lsp_utils_apply_workspace_edit(s0, cmd.edit) ELSE s0
    IN IF cmd.command # NULL
       THEN lsp_rpc_call(s1, "workspace/executeCommand",
                         IF callback = NULL THEN ReqExecuteNone ELSE ReqExecuteSave)
       ELSE perform_done(s1, callback)

\* command_cb(return_value, error, user_data): the executeCommand call completed
command_cb(s, callback) == perform_done(s, callback)

\* lsp_format_perform(doc, TRUE, callback, doc): formats the whole document
lsp_format_perform(s) == lsp_rpc_call(s, "textDocument/formatting", ReqFormatSave)

\* ------------------------------------------------------------------ lsp-main.c
\* a code_action_was_performed that never finds the title in the set
code_action_was_performed_never(cmd, s) ==
    IF ~s.code_actions_performed.exists THEN TRUE ELSE FALSE

\* a code_action_was_performed whose loop stops one element early
code_action_was_performed_short(cmd, s) ==
    IF ~s.code_actions_performed.exists THEN TRUE
    ELSE \E i \in 1..(Len(s.code_actions_performed.names) - 1) :
            s.code_actions_performed.names[i] = cmd.title

\* code_action_was_performed(cmd, doc)
code_action_was_performed(cmd, s) ==
    IF ~s.code_actions_performed.exists THEN TRUE
    ELSE \E i \in 1..Len(s.code_actions_performed.names) :
            s.code_actions_performed.names[i] = cmd.title

\* document_save_file(doc, FALSE): the host saves the file; it emits
\* "document-before-save" first, which re-enters on_document_before_save
document_save_file(s) ==
    [Emit(on_document_before_save(s), "save", "document_save_file") EXCEPT !.unsaved = FALSE]

\* an on_save_finish that removes the performed-title set before it saves
on_save_finish_clear_first(s) ==
    IF ~s.docValid THEN s
    ELSE IF s.code_actions_performed.exists
         THEN document_save_file([s EXCEPT !.code_actions_performed = NoSet,
                                           !.performLog = <<>>, !.offered = {}])
         ELSE s

\* on_save_finish(doc)
on_save_finish(s) ==
    IF ~s.docValid THEN s
    ELSE IF s.code_actions_performed.exists
         THEN [document_save_file(s) EXCEPT !.code_actions_performed = NoSet,
                                            !.performLog = <<>>, !.offered = {}]
         ELSE s

\* format_cb: the textDocument/formatting call completed; its callback is on_save_finish
format_cb(s) == on_save_finish(s)

\* the edits of a textDocument/formatting result are applied to the buffer of a document
\* that is still open in the editor; an error carries none
format_apply_edits(s, isError) ==
    IF isError \/ ~s.docValid THEN s ELSE [s EXCEPT !.unsaved = TRUE]

\* a loop that keeps the last candidate instead of returning at the first
first_to_perform_last(s, actions) ==
    LET hits == { i \in 1..Len(actions) :
                    /\ ~code_action_was_performed(actions[i], s)
                    /\ g_regex_match_simple(s.config.command_on_save_regex, actions[i].title) }
    IN IF hits = {} THEN 0 ELSE CHOOSE i \in hits : \A j \in hits : i >= j

\* the index of the first command on_code_actions_received's loop performs, or 0
first_to_perform(s, actions) ==
    LET hits == { i \in 1..Len(actions) :
                    /\ ~code_action_was_performed(actions[i], s)
                    /\ g_regex_match_simple(s.config.command_on_save_regex, actions[i].title) }
    IN IF hits = {} THEN 0 ELSE CHOOSE i \in hits : \A j \in hits : i <= j

\* a format-on-save test that forgets document_formatting_enable
format_on_save_enabled_flag_only(s) == s.config.format_on_save

\* a code-action-on-save test that forgets the pattern
code_action_on_save_enabled_no_regex(s) == s.config.code_action_enable

\* srv->config.document_formatting_enable && srv->config.format_on_save
format_on_save_enabled(s) ==
    s.config.document_formatting_enable /\ s.config.format_on_save

\* srv->config.code_action_enable && srv->config.command_on_save_regex
code_action_on_save_enabled(s) ==
    s.config.code_action_enable /\ s.config.command_on_save_regex # NULL

\* on_code_actions_received(actions, user_data)
on_code_actions_received(s, actions) ==
    IF ~s.docValid THEN s
    ELSE IF ~lsp_server_get_if_running(s) THEN s
    ELSE LET s0 == [s EXCEPT !.offered = @ \cup
                        { actions[i].title : i \in { j \in 1..Len(actions) :
                            g_regex_match_simple(s.config.command_on_save_regex, actions[j].title) } }]
             i == first_to_perform(s0, actions)
         IN IF i # 0
            THEN LET cmd == actions[i]
                     s1 == [s0 EXCEPT !.code_actions_performed.names = Append(@, cmd.title),
                                      !.performLog = Append(@, cmd.title)]
                 IN lsp_command_perform(Emit(s1, "perform", cmd.title), cmd, "on_command_performed")
            ELSE IF format_on_save_enabled(s0)
                 THEN lsp_format_perform(s0)
                 ELSE on_save_finish(s0)

\* on_document_before_save(obj, doc, user_data)
on_document_before_save(s) ==
    LET srv == lsp_server_get_if_running(s)
        s0 == lsp_server_get_started(s)
    IN IF ~srv \/ s0.code_actions_performed.exists THEN s0
       ELSE LET s1 == [s0 EXCEPT !.code_actions_performed = EmptySet,
                                 !.performLog = <<>>, !.offered = {}]
            IN IF code_action_on_save_enabled(s1)
               THEN lsp_command_send_code_action_request(s1, ReqCodeActionSave)
               ELSE IF format_on_save_enabled(s1)
                    THEN lsp_format_perform(s1)
                    ELSE s1

\* srv->config.command_regexes: the patterns of the configured command keybindings
command_regexes == <<".*">>

\* the index of the first command of the list that the keybinding's pattern matches, or 0
first_matching(cmd_str, cmds) ==
    LET hits == { i \in 1..Len(cmds) : g_regex_match_simple(cmd_str, cmds[i].title) }
    IN IF hits = {} THEN 0 ELSE CHOOSE i \in hits : \A j \in hits : i <= j

\* on_code_actions_received_kb(code_action_commands, user_data) for the first command
\* keybinding, while the tracked document is the current one (else the callback acts on
\* another document); line is the current line, taken to be the line of the last click
on_code_actions_received_kb(s, code_action_commands) ==
    LET srv == lsp_server_get_if_running(s)
        cmd_str == command_regexes[1]
        code_lens_commands == SelectSeq(s.commands, LAMBDA c : c.line = s.last_click_line)
        i == first_matching(cmd_str, code_action_commands)
        j == first_matching(cmd_str, code_lens_commands)
    IN IF ~(s.docValid /\ s.docCurrent /\ srv) THEN s
       ELSE IF i # 0
       THEN lsp_command_perform(Emit(s, "perform", code_action_commands[i].title),
                                code_action_commands[i], NULL)
       ELSE IF j # 0
       THEN lsp_command_perform(Emit(s, "perform", code_lens_commands[j].title),
                                code_lens_commands[j], NULL)
       ELSE s

\* invoke_command_kb(key_id, pos) for the first command keybinding
invoke_command_kb(s) == lsp_command_send_code_action_request(s, ReqCodeActionKb)

\* code_action_cb(widget, user_data) of lsp-main.c, the "activate" callback of an item of
\* the commands menu: srv is not tested; without a session the edit is applied and the
\* call has no channel to register a request with
code_action_cb_menu(s, cmd) ==
    LET srv == lsp_server_get_if_running(s)
        s0 == Emit(s, "perform", cmd.title)
    IN IF srv THEN lsp_command_perform(s0, cmd, NULL)
       ELSE IF cmd.edit # NULL THEN lsp_utils_apply_workspace_edit(s0, cmd.edit)
       ELSE s0

\* ------------------------------------------------------------------ lsp-code-lens.c
\* lines that code-lens entries are anchored at; 0 is the line of an entry without a range
LensLines == {3, 7}
AnnotationLines == LensLines \cup {0}

\* one element of a textDocument/codeLens response array, as JSON: the start line of
\* its "range" (0: no range) and the "title" and "command" of its "command" object
LensEntry(line, title, command) == [line |-> line, title |-> title, command |-> command]

NoAnnotations == [l \in AnnotationLines |-> <<>>]

\* add_annotation(sci, line, text): SCI_EOLANNOTATIONSETTEXT replaces the line's text
add_annotation(s, line, text) == [s EXCEPT !.annotations[line] = text]

\* code_lens_cb's loop; loc is <<last_line, str>>, str the text built so far
RECURSIVE code_lens_parse(_, _, _, _)
code_lens_parse(s, items, i, loc) ==
    IF i > Len(items)
    THEN IF Len(loc[2]) > 0 THEN add_annotation(s, loc[1], loc[2]) ELSE s
    ELSE LET e == items[i]
             line_num == e.line
         IN IF e.title = NULL \/ e.command = NULL
            THEN code_lens_parse(s, items, i + 1, loc)
            ELSE LET cmd == Command(e.title, e.command, FALSE, NULL, line_num)
                     flush == line_num # loc[1] /\ Len(loc[2]) > 0
                     s1 == IF flush THEN add_annotation(s, loc[1], loc[2]) ELSE s
                     str0 == IF flush THEN <<>> ELSE loc[2]
                     str1 == IF Len(str0) = 0 THEN <<"LSP Commands: ">> ELSE Append(str0, " | ")
                     str2 == Append(str1, cmd.title)
                     s2 == [s1 EXCEPT !.commands = Append(@, cmd)]
                 IN code_lens_parse(s2, items, i + 1, <<line_num, str2>>)

\* a callback that does not look for its document among the open ones
code_lens_cb_any_doc(s, resp) ==
    LET srv == lsp_server_get_if_running(s)
        s0 == Emit(lsp_server_get_started(s), "callback", "code_lens_cb")
    IN IF ~resp.error /\ srv
       THEN code_lens_parse([s0 EXCEPT !.annotations = NoAnnotations,
                                       !.lastRaw = <<resp.items>>],
                            resp.items, 1, <<0, <<>>>>)
       ELSE s0

\* code_lens_cb(return_value, error, user_data); a response is [error, items]
code_lens_cb(s, resp) ==
    LET doc_exists == s.docValid
        srv == doc_exists /\ lsp_server_get_if_running(s)
        s0 == Emit(IF doc_exists THEN lsp_server_get_started(s) ELSE s,
                   "callback", "code_lens_cb")
    IN IF ~resp.error /\ srv
       THEN code_lens_parse([s0 EXCEPT !.annotations = NoAnnotations,
                                       !.lastRaw = <<resp.items>>],
                            resp.items, 1, <<0, <<>>>>)
       ELSE s0

\* a per-line query that forgets to compare the line
lsp_code_lens_append_commands_all(s, cmds, line) == cmds \o s.commands

\* lsp_code_lens_append_commands(cmds, line)
lsp_code_lens_append_commands(s, cmds, line) ==
    cmds \o SelectSeq(s.commands, LAMBDA c : c.line = line)

\* a refresh that sends the request before it opens the document
lsp_code_lens_send_request_late_open(s) ==
    LET server == lsp_server_get_if_running(s)
    IN IF ~server THEN [s EXCEPT !.retryTimers = @ + 1]
       ELSE IF ~s.config.code_lens_enable THEN s
       ELSE LET s1 == [s EXCEPT !.commands = <<>>, !.menuOwner = Freed(@, "commands")]
                s2 == lsp_rpc_call(s1, "textDocument/codeLens", ReqCodeLens)
            IN IF ~s2.docOpen THEN lsp_sync_text_document_did_open(s2) ELSE s2

\* lsp_code_lens_send_request(doc)
lsp_code_lens_send_request(s) ==
    LET server == lsp_server_get_if_running(s)
    IN IF ~server THEN [s EXCEPT !.retryTimers = @ + 1]
       ELSE IF ~s.config.code_lens_enable THEN s
       ELSE LET s1 == [s EXCEPT !.commands = <<>>, !.menuOwner = Freed(@, "commands")]
                s2 == IF ~s1.docOpen THEN lsp_sync_text_document_did_open(s1) ELSE s1
            IN lsp_rpc_call(s2, "textDocument/codeLens", ReqCodeLens)

\* a retry that gives up while the server is still starting
retry_cb_no_rearm(s) ==
    IF s.docCurrent
    THEN IF ~lsp_server_is_usable(s) THEN <<s, FALSE>>
         ELSE IF ~lsp_server_get_if_running(s) THEN <<s, FALSE>>
         ELSE <<lsp_code_lens_send_request(s), FALSE>>
    ELSE <<s, FALSE>>

\* retry_cb(user_data): the timer fired; the result is <<state, keep the timer>>
retry_cb(s) ==
    IF s.docCurrent
    THEN IF ~lsp_server_is_usable(s) THEN <<s, FALSE>>
         ELSE IF ~lsp_server_get_if_running(s) THEN <<s, TRUE>>
         ELSE <<lsp_code_lens_send_request(s), FALSE>>
    ELSE <<s, FALSE>>

\* lsp_code_lens_style_init(doc)
lsp_code_lens_style_init(s) ==
    IF s.styleOffset = 0
    THEN lsp_code_lens_send_request([s EXCEPT !.styleOffset = 1])
    ELSE s

\* lsp_code_lens_send_request(doc) for another document of the same server, which is
\* open; only its effects on the shared state are kept
other_code_lens_send_request(s) ==
    LET server == lsp_server_get_if_running(s)
    IN IF ~server THEN s
       ELSE IF ~s.config.code_lens_enable THEN s
       ELSE lsp_rpc_call([s EXCEPT !.commands = <<>>, !.menuOwner = Freed(@, "commands")],
                         "textDocument/codeLens (other document)", ReqCodeLensOther)

\* code_lens_cb(return_value, error, user_data) for the other document: its
\* annotations go to its own editor, its commands to the shared array
other_code_lens_cb(s, resp) ==
    IF ~resp.error /\ lsp_server_get_if_running(s)
    THEN [s EXCEPT !.commands =
            code_lens_parse([s EXCEPT !.annotations = NoAnnotations],
                            resp.items, 1, <<0, <<>>>>).commands]
    ELSE s

\* ------------------------------------------------------------------ lsp-main.c, host events
\* on_update_idle(data)
on_update_idle(s) ==
    IF ~s.docValid THEN s
    ELSE lsp_code_lens_send_request([s EXCEPT !.update_source = FALSE])

\* an on_document_visible that sends didOpen whenever the server runs
on_document_visible_reopen(s) ==
    LET srv == lsp_server_get_if_running(s)
        s0 == lsp_server_get_started(s)
        s1 == lsp_code_lens_style_init(s0)
        s2 == on_save_finish(s1)
        s3 == IF srv THEN lsp_sync_text_document_did_open(s2) ELSE s2
    IN on_update_idle(s3)

\* on_document_visible(doc)
on_document_visible(s) ==
    LET srv == lsp_server_get_if_running(s)
        s0 == lsp_server_get_started(s)
        s1 == lsp_code_lens_style_init(s0)
        s2 == on_save_finish(s1)
        s3 == IF srv /\ ~s2.docOpen THEN lsp_sync_text_document_did_open(s2) ELSE s2
    IN on_update_idle(s3)

\* on_document_activate(obj, doc, user_data)
on_document_activate(s) == on_document_visible(s)

\* on_document_activate(obj, doc, user_data) for another document of the same server,
\* which is open and styled: on_update_idle refreshes its code lens
other_document_activate(s) == other_code_lens_send_request(s)

\* on_update_editor_menu(obj, word, pos, doc, user_data); line is the line of pos
on_update_editor_menu(s, line) ==
    LET srv == lsp_server_get_if_running(s)
        code_action_enable == srv /\ s.config.code_action_enable
        s0 == [s EXCEPT !.command_item_sensitive = code_action_enable]
    IN IF code_action_enable
       THEN lsp_command_send_code_action_request([s0 EXCEPT !.last_click_line = line],
                                                 ReqCodeActionMenu)
       ELSE s0

\* on_server_initialized(srv): the handshake is done; the document is shown when it is
\* the current one and opened at the server when it is another one with unsaved changes
\* (changed is doc->changed)
on_server_initialized(s, changed) ==
    LET s0 == [s EXCEPT !.srvState = "running"]
    IN IF ~s0.docValid \/ ~(changed \/ s0.docCurrent) THEN s0
       ELSE IF s0.docCurrent THEN on_document_visible(s0)
       ELSE lsp_sync_text_document_did_open(s0)

\* stop_and_init_all_servers(): every server is stopped and re-initialised, the
\* sync state is reset; the requests in flight can only end with an error
stop_and_init_all_servers(s) ==
    [s EXCEPT !.srvState = "stopped",
              !.docOpen = FALSE,
              !.serverText = <<>>,
              !.serverUri = NULL,
              !.altSrvState = "stopped",
              !.altServerUri = NULL,
              !.gone = [k \in ReqKinds |-> s.gone[k] + s.pending[k]],
              !.pending = [k \in ReqKinds |-> 0]]

\* a restart that only stops the servers
restart_all_servers_stop_only(s) == stop_and_init_all_servers(s)

\* restart_all_servers(): the current document is shown again after the stop
restart_all_servers(s) ==
    LET s0 == stop_and_init_all_servers(s)
    IN IF s0.docValid /\ s0.docCurrent THEN on_document_visible(s0) ELSE s0

\* on_document_close(obj, doc, user_data); the host frees the document's plugin data
on_document_close(s) ==
    LET srv == lsp_server_get_if_running(s)
        s0 == [s EXCEPT !.docValid = FALSE, !.docCurrent = FALSE,
                        !.code_actions_performed = NoSet, !.update_source = FALSE,
                        !.performLog = <<>>, !.offered = {}]
    IN IF ~srv THEN s0
       ELSE lsp_sync_text_document_did_close(s0)

\* on_document_before_save_as(obj, doc, user_data)
on_document_before_save_as(s) ==
    LET srv == lsp_server_get_if_running(s)
        s0 == lsp_server_get_started(s)
    IN IF ~srv THEN s0 ELSE lsp_sync_text_document_did_close(s0)

\* the characters of the modelled texts: a letter and the line break
Chars == {"a", "\n"}

\* the number of line breaks among the first n characters of text
LinesBefore(text, n) == Cardinality({ i \in 1..n : text[i] = "\n" })

\* the offset at which the given line of text starts
LineStart(text, line) ==
    IF line = 0 THEN 0
    ELSE CHOOSE i \in 1..Len(text) : text[i] = "\n" /\ LinesBefore(text, i) = line

\* lsp_utils_scintilla_pos_to_lsp(sci, pos): the line of the position and its distance
\* from the start of that line
lsp_utils_scintilla_pos_to_lsp(text, pos) ==
    LET line == LinesBefore(text, pos)
    IN [line |-> line, character |-> pos - LineStart(text, line)]

\* the offset a server computes for an LSP position in its copy of the text
OffsetOf(text, p) ==
    IF p.line > LinesBefore(text, Len(text)) THEN Len(text)
    ELSE LET off == LineStart(text, p.line) + p.character
         IN IF off > Len(text) THEN Len(text) ELSE off

\* a server applies one content change to its copy: the range is replaced by the text
ApplyChange(text, change) ==
    LET from == OffsetOf(text, change.start)
        to == OffsetOf(text, change.end)
    IN SubSeq(text, 1, from) \o change.text \o SubSeq(text, to + 1, Len(text))

\* lsp_sync_text_document_did_change(srv, doc, pos_start, pos_end, text): under
\* incremental sync the change carries the range, under full sync only the text
lsp_sync_text_document_did_change(s, pos_start, pos_end, text) ==
    LET change == [start |-> pos_start, end |-> pos_end, text |-> text]
    IN [Emit(s, "notify", "textDocument/didChange") EXCEPT
            !.changes = Append(@, change),
            !.serverText = IF s.use_incremental_sync THEN ApplyChange(@, change) ELSE text]

\* lsp_sync_text_document_did_save(srv, doc)
lsp_sync_text_document_did_save(s) == Emit(s, "notify", "textDocument/didSave")

\* the tail of on_editor_notify's SCN_MODIFIED branch: after an insertion or a deletion
\* the stored refresh timer is removed and a new one is added and stored
on_editor_notify_schedule(s, modificationType) ==
    LET s1 == IF s.update_source
              THEN [Emit(s, "timer", "g_source_remove") EXCEPT !.refreshTimers = @ - 1]
              ELSE s
    IN IF modificationType \in {"SC_MOD_INSERTTEXT", "SC_MOD_DELETETEXT"}
       THEN [Emit(s1, "timer", "plugin_timeout_add") EXCEPT !.refreshTimers = @ + 1,
                                                            !.update_source = TRUE]
       ELSE s

\* a sync part that sends the whole buffer as the inserted text in both modes
on_editor_notify_sync_whole_text(s, modificationType, position, length, text) ==
    LET pos_start == lsp_utils_scintilla_pos_to_lsp(s.buffer, position)
    IN IF modificationType = "SC_MOD_INSERTTEXT"
       THEN lsp_sync_text_document_did_change(s, pos_start, pos_start, s.buffer)
       ELSE IF s.use_incremental_sync /\ modificationType = "SC_MOD_BEFOREDELETE"
       THEN lsp_sync_text_document_did_change(s, pos_start,
                lsp_utils_scintilla_pos_to_lsp(s.buffer, position + length), <<>>)
       ELSE IF ~s.use_incremental_sync /\ modificationType = "SC_MOD_DELETETEXT"
       THEN lsp_sync_text_document_did_change(s,
                lsp_utils_scintilla_pos_to_lsp(s.buffer, 0),
                lsp_utils_scintilla_pos_to_lsp(s.buffer, 0), s.buffer)
       ELSE s

\* a sync part that reports a deletion before the buffer changes in both modes
on_editor_notify_sync_before_delete(s, modificationType, position, length, text) ==
    LET pos_start == lsp_utils_scintilla_pos_to_lsp(s.buffer, position)
    IN IF modificationType = "SC_MOD_INSERTTEXT"
       THEN lsp_sync_text_document_did_change(s, pos_start, pos_start,
                IF s.use_incremental_sync THEN SubSeq(text, 1, length) ELSE s.buffer)
       ELSE IF modificationType = "SC_MOD_BEFOREDELETE"
       THEN lsp_sync_text_document_did_change(s, pos_start,
                lsp_utils_scintilla_pos_to_lsp(s.buffer, position + length),
                IF s.use_incremental_sync THEN <<>> ELSE s.buffer)
       ELSE s

\* the sync part of on_editor_notify's SCN_MODIFIED branch once srv is known to run
on_editor_notify_sync(s, modificationType, position, length, text) ==
    LET pos_start == lsp_utils_scintilla_pos_to_lsp(s.buffer, position)
    IN IF modificationType = "SC_MOD_INSERTTEXT"
       THEN lsp_sync_text_document_did_change(s, pos_start, pos_start,
                IF s.use_incremental_sync THEN SubSeq(text, 1, length) ELSE s.buffer)
       ELSE IF s.use_incremental_sync /\ modificationType = "SC_MOD_BEFOREDELETE"
       THEN lsp_sync_text_document_did_change(s, pos_start,
                lsp_utils_scintilla_pos_to_lsp(s.buffer, position + length), <<>>)
       ELSE IF ~s.use_incremental_sync /\ modificationType = "SC_MOD_DELETETEXT"
       THEN lsp_sync_text_document_did_change(s,
                lsp_utils_scintilla_pos_to_lsp(s.buffer, 0),
                lsp_utils_scintilla_pos_to_lsp(s.buffer, 0), s.buffer)
       ELSE s

\* SCN_MODIFIED with the lazy didOpen at the notification that follows the change
on_editor_notify_late_open(s, modificationType, position, length, text) ==
    LET srv == lsp_server_get_if_running(s)
        s0 == lsp_server_get_started(s)
        s1 == IF ~s0.docOpen
                 /\ modificationType \in {"SC_MOD_INSERTTEXT", "SC_MOD_DELETETEXT"}
              THEN lsp_sync_text_document_did_open(s0)
              ELSE s0
    IN IF ~srv THEN s0
       ELSE on_editor_notify_schedule(
                on_editor_notify_sync(s1, modificationType, position, length, text),
                modificationType)

\* SCN_MODIFIED without the lazy didOpen of the notification that precedes the change
on_editor_notify_no_lazy_open(s, modificationType, position, length, text) ==
    LET srv == lsp_server_get_if_running(s)
        s0 == lsp_server_get_started(s)
    IN IF ~srv THEN s0
       ELSE on_editor_notify_schedule(
                on_editor_notify_sync(s0, modificationType, position, length, text),
                modificationType)

\* on_editor_notify(obj, editor, nt, user_data) for nt->nmhdr.code == SCN_MODIFIED, with
\* doc->real_path set; position, length and text are nt->position, nt->length, nt->text
on_editor_notify(s, modificationType, position, length, text) ==
    LET srv == lsp_server_get_if_running(s)
        s0 == lsp_server_get_started(s)
        s1 == IF ~s0.docOpen
                 /\ modificationType \in {"SC_MOD_BEFOREINSERT", "SC_MOD_BEFOREDELETE"}
              THEN lsp_sync_text_document_did_open(s0)
              ELSE s0
    IN IF ~srv THEN s0
       ELSE on_editor_notify_schedule(
                on_editor_notify_sync(s1, modificationType, position, length, text),
                modificationType)

\* Scintilla inserts the text at the position of its buffer
SCI_INSERTTEXT(s, position, text) ==
    [s EXCEPT !.buffer = SubSeq(@, 1, position) \o text \o SubSeq(@, position + 1, Len(@))]

\* Scintilla deletes length characters at the position of its buffer
SCI_DELETERANGE(s, position, length) ==
    [s EXCEPT !.buffer = SubSeq(@, 1, position) \o SubSeq(@, position + length + 1, Len(@))]

\* on_document_save(obj, doc, user_data) for a document that is neither the
\* configuration file nor a server's init file
on_document_save(s) ==
    LET srv == lsp_server_get_if_running(s)
        s0 == lsp_server_get_started(s)
        s1 == IF ~s0.docOpen THEN on_document_visible(s0) ELSE s0
    IN IF ~srv THEN s0 ELSE lsp_sync_text_document_did_save(s1)

\* ------------------------------------------------------------------ responses
ErrorResponse == [error |-> TRUE, isArray |-> FALSE, items |-> <<>>]
NonArrayResponse == [error |-> FALSE, isArray |-> FALSE, items |-> <<>>]
ArrayResponses(entries, n) ==
    { [error |-> FALSE, isArray |-> TRUE, items |-> q] : q \in SeqsUpTo(entries, n) }

\* a request of this kind is in flight and its response (or error) arrives
Take(s, kind, isError) ==
    IF ~isError /\ s.pending[kind] > 0 THEN [s EXCEPT !.pending[kind] = @ - 1]
    ELSE IF s.pending[kind] > 0 THEN [s EXCEPT !.pending[kind] = @ - 1]
    ELSE [s EXCEPT !.gone[kind] = @ - 1]

CanTake(kind, isError) ==
    \/ pending[kind] > 0
    \/ isError /\ gone[kind] > 0

\* ------------------------------------------------------------------ configurations
Config(ca, regex, fmt, fos, lens) ==
    [code_action_enable |-> ca, command_on_save_regex |-> regex,
     document_formatting_enable |-> fmt, format_on_save |-> fos, code_lens_enable |-> lens]

SaveConfigs ==
    { Config(ca, re, fmt, fos, FALSE) :
        ca \in BOOLEAN, re \in Patterns, fmt \in BOOLEAN, fos \in BOOLEAN }

NoRequests == [k \in ReqKinds |-> 0]

\* an RPC channel on which nothing was called: no id is registered, issued or resolved
NoRpc ==
    [registry |-> [id \in 1..MaxIds |-> NULL],
     issued |-> [id \in 1..MaxIds |-> NULL],
     fired |-> [id \in 1..MaxIds |-> <<>>],
     nextId |-> 1]

\* the state after plugin_init: no server started, nothing requested
InitState(configs, inputs, syncs) ==
    /\ config \in configs
    /\ use_incremental_sync \in syncs
    /\ srvState = "stopped"
    /\ docValid = TRUE
    /\ docCurrent = TRUE
    /\ docOpen = FALSE
    /\ code_actions_performed = NoSet
    /\ code_actions = <<>>
    /\ pending = NoRequests
    /\ gone = NoRequests
    /\ menu = <<>>
    /\ commands = <<>>
    /\ annotations = NoAnnotations
    /\ retryTimers = 0
    /\ styleOffset = 0
    /\ last_click_line = 0
    /\ trace = <<>>
    /\ performLog = <<>>
    /\ offered = {}
    /\ delivered = <<>>
    /\ lastRaw = <<>>
    /\ buffer = <<>>
    /\ serverText = <<>>
    /\ changes = <<>>
    /\ update_source = FALSE
    /\ refreshTimers = 0
    /\ real_path = "/a.c"
    /\ serverUri = NULL
    /\ filetype = "C"
    /\ altSrvState = "stopped"
    /\ altServerUri = NULL
    /\ rpc = NoRpc
    /\ opened = <<>>
    /\ menuOwner = <<>>
    /\ command_item_sensitive = FALSE
    /\ unsaved = FALSE
    /\ owed = 0
    /\ input \in inputs

\* the specifications that send no text change notification fix a server with full text sync
InitWith(configs, inputs) == InitState(configs, inputs, {FALSE})

\* ------------------------------------------------------------------ actions
\* the host emits "document-before-save" and writes the buffer to the file
BeforeSave ==
    /\ docValid
    /\ InFlight(Cur) < MaxPending
    /\ Commit([on_document_before_save(Cur) EXCEPT !.unsaved = FALSE])

\* the response of a textDocument/codeAction request arrives
CodeActionResponse(kind, responses) ==
    \E resp \in responses :
        /\ CanTake(kind, resp.error)
        /\ Commit(code_action_cb(Take(Cur, kind, resp.error), resp, kind))

\* the workspace/executeCommand call of the save loop completes
ExecuteResponse ==
    \E isError \in BOOLEAN :
        /\ CanTake(ReqExecuteSave, isError)
        /\ Commit(command_cb(Take(Cur, ReqExecuteSave, isError), "on_command_performed"))

\* the textDocument/formatting call of the save cycle completes
FormatResponse ==
    \E isError \in BOOLEAN :
        /\ CanTake(ReqFormatSave, isError)
        /\ Commit(format_cb(format_apply_edits(Take(Cur, ReqFormatSave, isError), isError)))

\* the host emits "document-activate"
DocumentActivate ==
    /\ docValid
    /\ srvState = "running" \/ retryTimers + 2 <= MaxTimers
    /\ InFlight(Cur) < MaxPending
    /\ Commit(on_document_activate([Cur EXCEPT !.docCurrent = TRUE]))

\* the host emits "update-editor-menu" (the context menu opens at a line)
UpdateEditorMenu ==
    \E line \in LensLines :
        /\ docValid /\ docCurrent
        /\ InFlight(Cur) < MaxPending
        /\ Commit(on_update_editor_menu(Cur, line))

\* the server's initialize handshake completes
ServerInitialized ==
    \E changed \in BOOLEAN :
        /\ srvState = "starting"
        /\ InFlight(Cur) < MaxPending
        /\ Commit(on_server_initialized(Cur, changed))

\* the configuration file is saved
ConfigSaved ==
    /\ srvState # "stopped"
    /\ Commit(stop_and_init_all_servers(Cur))

\* a retry timer of the code-lens requester fires
RetryTick ==
    /\ retryTimers > 0
    /\ InFlight(Cur) < MaxPending
    /\ LET r == retry_cb(Cur)
       IN Commit(IF r[2] THEN r[1] ELSE [r[1] EXCEPT !.retryTimers = @ - 1])

\* the host emits "document-close"
DocumentClose ==
    /\ docValid
    /\ Commit(on_document_close(Cur))

SaveResponses == {ErrorResponse, NonArrayResponse} \cup ArrayResponses(SaveEntries, MaxResp)

Init == InitWith(SaveConfigs, {<<>>})

Next ==
    \/ BeforeSave
    \/ CodeActionResponse(ReqCodeActionSave, SaveResponses)
    \/ ExecuteResponse
    \/ FormatResponse
    \/ DocumentActivate
    \/ ServerInitialized
    \/ ConfigSaved
    \/ RetryTick
    \/ DocumentClose

\* the save orchestrator with its requests, the commands menu and the server lifecycle
Spec == Init /\ [][Next]_vars

\* ------------------------------------------------------------------ normalisation
\* code_action_cb's loop applied to the response array drawn by the initial state
ApplyParse ==
    /\ trace = <<>>
    /\ code_actions' = code_action_parse(code_actions, input, 1)
    /\ trace' = << <<"parsed", "code_action_cb">> >>
    /\ UNCHANGED <<config, srvState, docValid, docOpen, code_actions_performed, pending, gone,
                   menu, commands, annotations, retryTimers, docCurrent, styleOffset,
                   last_click_line, performLog, offered, delivered, lastRaw,
                   use_incremental_sync, buffer, serverText, changes, update_source,
                   refreshTimers, real_path, serverUri, filetype, altSrvState, altServerUri,
                   rpc, opened, menuOwner, command_item_sensitive, unsaved, owed, input>>

InitParse ==
    InitWith({Config(TRUE, NULL, FALSE, FALSE, FALSE)}, SeqsUpTo(ShapedEntries, MaxResp))

NextParse == ApplyParse

\* the normalisation of one code-action response, over every shape of its elements
SpecParse == InitParse /\ [][NextParse]_vars

\* ------------------------------------------------------------------ code lens
LensEntries == { LensEntry(3, "Run", "run.test"), LensEntry(7, "Debug", "debug.test") }

LensResponses ==
    { [error |-> TRUE, items |-> <<>>] }
    \cup { [error |-> FALSE, items |-> q] : q \in SeqsUpTo(LensEntries, MaxLens) }

LensConfigs == { Config(FALSE, NULL, FALSE, FALSE, lens) : lens \in BOOLEAN }

\* the refresh of the document's features runs (on_update_idle)
UpdateIdle ==
    /\ InFlight(Cur) < MaxPending
    /\ srvState = "running" \/ retryTimers < MaxTimers
    /\ Commit(on_update_idle(Cur))

\* the response of a textDocument/codeLens request arrives
CodeLensResponseOf(resp) ==
    /\ CanTake(ReqCodeLens, resp.error)
    /\ Commit(code_lens_cb(Take(Cur, ReqCodeLens, resp.error), resp))

CodeLensResponse == \E resp \in LensResponses : CodeLensResponseOf(resp)

\* the host emits "document-before-save-as"
BeforeSaveAs ==
    /\ docValid
    /\ Commit(on_document_before_save_as(Cur))

\* the configuration file is edited and saved: the servers restart with the new configuration
ConfigEdited ==
    \E c \in LensConfigs :
        Commit([stop_and_init_all_servers(Cur) EXCEPT !.config = c])

\* the server process dies
ServerCrashed ==
    /\ srvState \in {"starting", "running"}
    /\ Commit([Cur EXCEPT !.srvState = "crashed",
                          !.serverUri = NULL, !.serverText = <<>>,
                          !.gone = [k \in ReqKinds |-> Cur.gone[k] + Cur.pending[k]],
                          !.pending = [k \in ReqKinds |-> 0]])

\* the user switches to another document of the same server
OtherDocumentActivate ==
    /\ docCurrent
    /\ srvState = "running"
    /\ InFlight(Cur) < MaxPending
    /\ Commit(other_document_activate([Cur EXCEPT !.docCurrent = FALSE]))

OtherLensEntries == { LensEntry(3, "Run other", "run.other") }

\* the response of the other document's textDocument/codeLens request arrives
OtherLensResponse ==
    \E resp \in { [error |-> TRUE, items |-> <<>>] }
                 \cup { [error |-> FALSE, items |-> q] : q \in SeqsUpTo(OtherLensEntries, 1) } :
        /\ CanTake(ReqCodeLensOther, resp.error)
        /\ Commit(other_code_lens_cb(Take(Cur, ReqCodeLensOther, resp.error), resp))

InitLens == InitWith(LensConfigs, {<<>>})

NextLens ==
    \/ DocumentActivate
    \/ ServerInitialized
    \/ ConfigEdited
    \/ RetryTick
    \/ UpdateIdle
    \/ CodeLensResponse
    \/ BeforeSaveAs
    \/ DocumentClose
    \/ ServerCrashed
    \/ OtherDocumentActivate
    \/ OtherLensResponse

\* the code-lens requester with the document and server lifecycle
SpecLens == InitLens /\ [][NextLens]_vars

\* the code-lens requester when the main loop dispatches every due timer and the
\* transport resolves every call with a response or an error
SpecLensFair ==
    /\ SpecLens
    /\ WF_vars(RetryTick)
    /\ WF_vars(CodeLensResponse)
    /\ WF_vars(OtherLensResponse)

\* ------------------------------------------------------------------ code-lens annotations
\* the response elements the annotation specification draws from; the last one has
\* no "command" object
ParseLensEntries ==
    { LensEntry(l, tc[1], tc[2]) :
        l \in LensLines, tc \in { <<"Run", "run.test">>, <<"Debug", "debug.test">> } }
    \cup { LensEntry(3, NULL, NULL) }

\* lines a caller queries: the anchored ones, line 0 and a line without code lens
QueryLines == AnnotationLines \cup {5}

\* the lists a caller passes to the per-line query
CallerLists == { <<>>, <<Command("Fix All", "fix.all", TRUE, NULL, 0)>> }

\* the body of code_lens_cb applied to the response array drawn by the initial state
ApplyLensParse ==
    /\ trace = <<>>
    /\ LET s == code_lens_parse([Cur EXCEPT !.annotations = NoAnnotations], input, 1, <<0, <<>>>>)
       IN /\ commands' = s.commands
          /\ annotations' = s.annotations
    /\ trace' = << <<"parsed", "code_lens_cb">> >>
    /\ UNCHANGED <<config, srvState, docValid, docOpen, code_actions_performed, code_actions,
                   pending, gone, menu, retryTimers, docCurrent, styleOffset,
                   last_click_line, performLog, offered, delivered, lastRaw,
                   use_incremental_sync, buffer, serverText, changes, update_source,
                   refreshTimers, real_path, serverUri, filetype, altSrvState, altServerUri,
                   rpc, opened, menuOwner, command_item_sensitive, unsaved, owed, input>>

\* a caller asks for the commands of a line
QueryLine ==
    \E line \in QueryLines, cmds \in CallerLists :
        /\ trace # <<>>
        /\ menu' = lsp_code_lens_append_commands(Cur, cmds, line)
        /\ last_click_line' = line
        /\ delivered' = <<cmds>>
        /\ trace' = << <<"query", "lsp_code_lens_append_commands">> >>
        /\ UNCHANGED <<config, srvState, docValid, docOpen, code_actions_performed, code_actions,
                       pending, gone, commands, annotations, retryTimers, docCurrent,
                       styleOffset, performLog, offered, lastRaw, use_incremental_sync, buffer,
                       serverText, changes, update_source, refreshTimers, real_path, serverUri,
                       filetype, altSrvState, altServerUri, rpc, opened, menuOwner, command_item_sensitive, unsaved, owed, input>>

InitLensParse ==
    InitWith({Config(FALSE, NULL, FALSE, FALSE, TRUE)}, SeqsUpTo(ParseLensEntries, MaxLensItems))

NextLensParse ==
    \/ ApplyLensParse
    \/ QueryLine

\* the processing of one code-lens response and the per-line query of its result
SpecLensParse == InitLensParse /\ [][NextLensParse]_vars

\* ------------------------------------------------------------------ text synchronisation
\* code actions run on save; the code lens is off
SyncConfigs == { Config(TRUE, "organize", FALSE, FALSE, FALSE) }

\* the server has no code action to offer
SyncResponses == {ErrorResponse} \cup ArrayResponses(SaveEntries, 0)

\* text is inserted into the buffer: Scintilla notifies SC_MOD_BEFOREINSERT, changes the
\* buffer and notifies SC_MOD_INSERTTEXT, all within the same modification
InsertText(position, text) ==
    /\ docValid
    /\ update_source \/ refreshTimers < MaxRefresh
    /\ Commit(on_editor_notify(
                  SCI_INSERTTEXT(
                      on_editor_notify(Cur, "SC_MOD_BEFOREINSERT", position, Len(text), text),
                      position, text),
                  "SC_MOD_INSERTTEXT", position, Len(text), text))

\* text is deleted from the buffer: SC_MOD_BEFOREDELETE, the change, SC_MOD_DELETETEXT
DeleteText(position, length) ==
    /\ docValid
    /\ update_source \/ refreshTimers < MaxRefresh
    /\ LET text == SubSeq(buffer, position + 1, position + length)
       IN Commit(on_editor_notify(
                     SCI_DELETERANGE(
                         on_editor_notify(Cur, "SC_MOD_BEFOREDELETE", position, length, text),
                         position, length),
                     "SC_MOD_DELETETEXT", position, length, text))

\* the paths a document is saved under
Paths == {"/a.c", "/b.c"}

\* the handler of "document-before-save-as" run only after the host renamed the document
BeforeSaveAsLate(path) ==
    /\ docValid
    /\ Commit(on_document_before_save_as([Cur EXCEPT !.real_path = path]))

\* the user saves the document under another name: the host emits
\* "document-before-save-as" and then sets the new path
BeforeSaveAsTo(path) ==
    /\ docValid
    /\ Commit([on_document_before_save_as(Cur) EXCEPT !.real_path = path])

\* save as, for every other path
BeforeSaveAsNew == \E path \in Paths \ {real_path} : BeforeSaveAsTo(path)

\* the filetypes of the model and the server configured for each: C++ uses the server of C
Filetypes == {"C", "C++", "Python"}

ServerOf(ft) == IF ft = "Python" THEN "pylsp" ELSE "clangd"

\* the host sets doc->file_type; srvState and serverUri describe the server of the
\* document's filetype, altSrvState and altServerUri the other server
SetFiletype(s, ft) ==
    IF ServerOf(ft) = ServerOf(s.filetype)
    THEN [s EXCEPT !.filetype = ft]
    ELSE [s EXCEPT !.filetype = ft,
                   !.srvState = s.altSrvState, !.altSrvState = s.srvState,
                   !.serverUri = s.altServerUri, !.altServerUri = s.serverUri]

\* lsp_sync_text_document_did_close(srv_old, doc) for the server of the previous filetype
lsp_sync_text_document_did_close_old(s, same) ==
    IF same THEN lsp_sync_text_document_did_close(s)
    ELSE [Emit(s, "notify", "textDocument/didClose") EXCEPT
              !.docOpen = FALSE,
              !.altServerUri = IF @ = s.real_path THEN NULL ELSE @]

\* a filetype change that shows the document at the new server and closes it at the
\* old one afterwards
on_document_filetype_set_close_last(s, filetype_old) ==
    LET same == ServerOf(filetype_old) = ServerOf(s.filetype)
        srv_old == IF same THEN s.srvState = "running" ELSE s.altSrvState = "running"
        srv_new == lsp_server_get_if_running(s)
        s0 == lsp_server_get_started(s)
    IN IF ~s.docOpen THEN s
       ELSE IF (~srv_old /\ ~srv_new) \/ (same /\ srv_old /\ srv_new) THEN s0
       ELSE LET s1 == on_document_visible([s0 EXCEPT !.docOpen = FALSE])
            IN IF srv_old THEN [Emit(s1, "notify", "textDocument/didClose") EXCEPT
                                    !.altServerUri = @]
               ELSE s1

\* on_document_filetype_set(obj, doc, filetype_old, user_data); srv_old and srv_new are
\* pointers, equal when both are NULL or both are the one running server
on_document_filetype_set(s, filetype_old) ==
    LET same == ServerOf(filetype_old) = ServerOf(s.filetype)
        srv_old == IF same THEN s.srvState = "running" ELSE s.altSrvState = "running"
        srv_new == lsp_server_get_if_running(s)
        s0 == lsp_server_get_started(s)
    IN IF ~s.docOpen THEN s
       ELSE IF (~srv_old /\ ~srv_new) \/ (same /\ srv_old /\ srv_new) THEN s0
       ELSE LET s1 == IF srv_old THEN lsp_sync_text_document_did_close_old(s0, same)
                      ELSE s0
            IN on_document_visible(s1)

\* on_document_save(obj, doc, user_data) for another document, whose path is the plugin's
\* configuration file ("config") or the initialization file of a server ("init")
on_document_save_servers_file(s, file) ==
    IF file = "config" THEN stop_and_init_all_servers(s)
    ELSE IF file = "init" THEN stop_and_init_all_servers(s)
    ELSE s

\* the host emits "document-save" for the configuration file or a server's init file
ServersFileSaved ==
    \E file \in {"config", "init"} :
        /\ srvState # "stopped"
        /\ Commit(on_document_save_servers_file(Cur, file))

\* the user invokes the restart of all servers (keybinding or menu)
RestartServers ==
    /\ retryTimers + 2 <= MaxTimers
    /\ Commit(restart_all_servers(Cur))

\* the user types a letter into the empty buffer
EditInsert == buffer = <<>> /\ InsertText(0, <<"a">>)

\* the user deletes the last character of the buffer
EditDelete == buffer # <<>> /\ DeleteText(Len(buffer) - 1, 1)

\* the refresh timer armed by an edit fires
RefreshTick ==
    /\ refreshTimers > 0
    /\ InFlight(Cur) < MaxPending
    /\ srvState = "running" \/ retryTimers < MaxTimers
    /\ Commit([on_update_idle(Cur) EXCEPT !.refreshTimers = @ - 1])

\* the host emits "document-save" after the file was written
DocumentSave ==
    /\ docValid
    /\ InFlight(Cur) < MaxPending
    /\ Commit(on_document_save(Cur))

InitSync == InitState(SyncConfigs, {<<>>}, BOOLEAN)

NextSync ==
    \/ DocumentActivate
    \/ ServerInitialized
    \/ ConfigSaved
    \/ ServersFileSaved
    \/ RestartServers
    \/ RetryTick
    \/ RefreshTick
    \/ EditInsert
    \/ EditDelete
    \/ BeforeSave
    \/ BeforeSaveAs
    \/ BeforeSaveAsNew
    \/ DocumentSave
    \/ CodeActionResponse(ReqCodeActionSave, SyncResponses)
    \/ DocumentClose

\* edits and saves of one document with the requests of its save cycle
SpecSync == InitSync /\ [][NextSync]_vars

\* ------------------------------------------------------------------ text changes
TextConfigs == { Config(FALSE, NULL, FALSE, FALSE, FALSE) }

\* the texts one insertion adds
InsertTexts == SeqsUpTo(Chars, 2) \ {<<>>}

\* the user or the host inserts text anywhere in the buffer
TextInsert ==
    \E position \in 0..Len(buffer), text \in InsertTexts :
        /\ Len(buffer) + Len(text) <= MaxText
        /\ InsertText(position, text)

\* the user or the host deletes a range of the buffer
TextDelete ==
    \E position \in 0..Len(buffer), length \in 1..MaxText :
        /\ position + length <= Len(buffer)
        /\ DeleteText(position, length)

InitText == InitState(TextConfigs, {<<>>}, BOOLEAN)

NextText ==
    \/ DocumentActivate
    \/ ServerInitialized
    \/ BeforeSaveAs
    \/ RetryTick
    \/ RefreshTick
    \/ TextInsert
    \/ TextDelete

\* the edits of one document and the content changes sent for them
SpecText == InitText /\ [][NextText]_vars

\* ------------------------------------------------------------------ callbacks after close
\* code actions and formatting run on save, the code lens is on
CloseConfigs == { Config(TRUE, "organize", TRUE, TRUE, TRUE) }

CloseEntries == { Entry("Organize Imports", "string", "java.organize", TRUE, NULL) }

CloseResponses == {ErrorResponse} \cup ArrayResponses(CloseEntries, 1)

CloseLensResponses == { [error |-> TRUE, items |-> <<>>], [error |-> FALSE, items |-> <<>>] }

InitClose == InitState(CloseConfigs, {<<>>}, {FALSE})

NextClose ==
    \/ DocumentActivate
    \/ ServerInitialized
    \/ ConfigSaved
    \/ RetryTick
    \/ RefreshTick
    \/ EditInsert
    \/ EditDelete
    \/ BeforeSave
    \/ CodeActionResponse(ReqCodeActionSave, CloseResponses)
    \/ ExecuteResponse
    \/ FormatResponse
    \/ \E resp \in CloseLensResponses : CodeLensResponseOf(resp)
    \/ DocumentClose

\* the save cycle and the refresh of a document that is closed while they are under way
SpecClose == InitClose /\ [][NextClose]_vars

\* ------------------------------------------------------------------ filetype change
\* the user sets another filetype for the document: the host changes doc->file_type and
\* emits "document-filetype-set" with the previous filetype
FiletypeSet(ft) ==
    /\ docValid
    /\ ft # filetype
    /\ SetFiletype(Cur, ft).srvState = "running" \/ retryTimers + 2 <= MaxTimers
    /\ Commit(on_document_filetype_set(SetFiletype(Cur, ft), filetype))

\* the handshake of the server the document does not use completes
AltServerInitialized ==
    /\ altSrvState = "starting"
    /\ Commit([Cur EXCEPT !.altSrvState = "running"])

InitFiletype == InitState(TextConfigs, {<<>>}, {FALSE})

NextFiletype ==
    \/ DocumentActivate
    \/ ServerInitialized
    \/ AltServerInitialized
    \/ ServerCrashed
    \/ ConfigSaved
    \/ BeforeSaveAs
    \/ RetryTick
    \/ \E ft \in Filetypes : FiletypeSet(ft)

\* one document that moves between two servers as its filetype changes
SpecFiletype == InitFiletype /\ [][NextFiletype]_vars

\* ------------------------------------------------------------------ opening
\* the code lens is on, nothing runs on save
OpenConfigs == { Config(FALSE, NULL, FALSE, FALSE, TRUE) }

InitOpen == InitState(OpenConfigs, {<<>>}, {FALSE})

NextOpen ==
    \/ DocumentActivate
    \/ OtherDocumentActivate
    \/ ServerInitialized
    \/ ConfigSaved
    \/ BeforeSaveAs
    \/ RetryTick
    \/ RefreshTick
    \/ EditInsert
    \/ EditDelete
    \/ DocumentSave
    \/ \E resp \in CloseLensResponses : CodeLensResponseOf(resp)
    \/ OtherLensResponse
    \/ DocumentClose

\* every handler that opens the document at its server, with the events that close it
SpecOpen == InitOpen /\ [][NextOpen]_vars

\* ------------------------------------------------------------------ save cycle
\* code actions run on save, formatting and the code lens are off
CycleConfigs == { Config(TRUE, "organize", FALSE, FALSE, FALSE) }

\* the response of a code-action request of the save loop arrives
CycleCodeActionResponse == CodeActionResponse(ReqCodeActionSave, CloseResponses)

InitCycle == InitState(CycleConfigs, {<<>>}, {FALSE})

NextCycle ==
    \/ DocumentActivate
    \/ ServerInitialized
    \/ ConfigSaved
    \/ RetryTick
    \/ BeforeSave
    \/ CycleCodeActionResponse
    \/ ExecuteResponse

\* the save cycle of one document
SpecCycle == InitCycle /\ [][NextCycle]_vars

\* the save cycle when the transport resolves every call with a response or an error;
\* nothing obliges the user to activate the document again
SpecCycleFair ==
    /\ SpecCycle
    /\ WF_vars(CycleCodeActionResponse)
    /\ WF_vars(ExecuteResponse)

\* ------------------------------------------------------------------ commands menu
\* code actions and the code lens are on, nothing runs on save
MenuConfigs == { Config(TRUE, NULL, FALSE, FALSE, TRUE) }

MenuEntries ==
    { Entry("Fix All", "object", "fix.all", TRUE, "edit:fix"),
      Entry("Add License", "absent", NULL, FALSE, "edit:license") }

MenuResponses == {ErrorResponse, NonArrayResponse} \cup ArrayResponses(MenuEntries, 1)

\* the server reports one code-lens command at line 3, or fails

MenuLensResponses ==
    { [error |-> TRUE, items |-> <<>>] }
    \cup { [error |-> FALSE, items |-> q] : q \in SeqsUpTo({LensEntry(3, "Run", "run.test")}, 1) }

\* what the callback of an item can read through its command pointer: the command, or,
\* once the command was freed, whatever command the memory holds by then
PointedCommands(i) ==
    IF menuOwner[i] = "freed"
    THEN {menu[i]} \cup { code_action_parse(<<>>, <<e>>, 1)[1] : e \in MenuEntries }
    ELSE {menu[i]}

\* the user activates the i-th item of the commands menu
MenuActivateItem(i) ==
    /\ docValid /\ docCurrent
    /\ command_item_sensitive
    /\ i \in 1..Len(menu)
    /\ InFlight(Cur) < MaxPending
    /\ \E cmd \in PointedCommands(i) : Commit(code_action_cb_menu(Cur, cmd))

MenuActivate == \E i \in 1..(MaxResp + MaxLens) : MenuActivateItem(i)

\* the user presses the first command keybinding
InvokeCommandKb ==
    /\ docValid /\ docCurrent
    /\ InFlight(Cur) < MaxPending
    /\ Commit(invoke_command_kb(Cur))

\* a workspace/executeCommand call that was made without a completion callback completes
ExecuteNoneResponse ==
    \E isError \in BOOLEAN :
        /\ CanTake(ReqExecuteNone, isError)
        /\ Commit(command_cb(Take(Cur, ReqExecuteNone, isError), NULL))

InitMenu == InitState(MenuConfigs, {<<>>}, {FALSE})

NextMenu ==
    \/ DocumentActivate
    \/ ServerInitialized
    \/ ConfigSaved
    \/ RetryTick
    \/ \E resp \in MenuLensResponses : CodeLensResponseOf(resp)
    \/ UpdateEditorMenu
    \/ CodeActionResponse(ReqCodeActionMenu, MenuResponses)
    \/ MenuActivate
    \/ ExecuteNoneResponse

\* the commands context menu and the caches its items point into
SpecMenu == InitMenu /\ [][NextMenu]_vars

\* ------------------------------------------------------------------ command keybinding
\* code actions are on, the code lens is off, nothing runs on save
KbConfigs == { Config(TRUE, NULL, FALSE, FALSE, FALSE) }

InitKb == InitState(KbConfigs, {<<>>}, {FALSE})

NextKb ==
    \/ DocumentActivate
    \/ ServerInitialized
    \/ ConfigSaved
    \/ RetryTick
    \/ InvokeCommandKb
    \/ CodeActionResponse(ReqCodeActionKb, MenuResponses)
    \/ ExecuteNoneResponse

\* the command keybinding with its code-action requests and the server lifecycle
SpecKb == InitKb /\ [][NextKb]_vars

\* ------------------------------------------------------------------ request registry
\* the completion callbacks registered by the requesters of the model
RpcCallbacks == {ReqCodeLens, ReqCodeActionSave, ReqExecuteSave}

\* call(method, params, onComplete): a fresh id is allocated and (id -> onComplete) recorded
rpc_call(r, onComplete) ==
    [r EXCEPT !.registry[r.nextId] = onComplete,
              !.issued[r.nextId] = onComplete,
              !.nextId = @ + 1]

\* a dispatch that invokes the callback and keeps the entry
rpc_receive_keep_entry(r, id, outcome) ==
    IF r.registry[id] = NULL THEN r
    ELSE [r EXCEPT !.fired[id] = Append(@, <<r.registry[id], outcome>>)]

\* an inbound message that carries an id: the callback of a matching pending entry is
\* invoked once and the entry removed; an unmatched message is dropped
rpc_receive(r, id, outcome) ==
    IF r.registry[id] = NULL THEN r
    ELSE [r EXCEPT !.fired[id] = Append(@, <<r.registry[id], outcome>>),
                   !.registry[id] = NULL]

\* a termination that forgets the pending entries without resolving them
rpc_server_gone_forget(r) == [r EXCEPT !.registry = [id \in 1..MaxIds |-> NULL]]

\* the owning server terminates: every pending entry is resolved with a synthetic
\* "server gone" error and removed
rpc_server_gone(r) ==
    [r EXCEPT !.fired = [id \in 1..MaxIds |->
                            IF r.registry[id] = NULL THEN r.fired[id]
                            ELSE Append(r.fired[id], <<r.registry[id], "server gone">>)],
              !.registry = [id \in 1..MaxIds |-> NULL]]

\* the variables of the plugin, which the channel leaves alone
pluginVars ==
    <<config, srvState, docValid, docOpen, code_actions_performed, code_actions,
      pending, gone, menu, commands, annotations, retryTimers, docCurrent,
      styleOffset, last_click_line, trace, performLog, offered, delivered, lastRaw,
      use_incremental_sync, buffer, serverText, changes, update_source, refreshTimers,
      real_path, serverUri, filetype, altSrvState, altServerUri, opened, menuOwner, command_item_sensitive, unsaved, owed, input>>

\* a requester issues a request
RpcCall ==
    \E onComplete \in RpcCallbacks :
        /\ rpc.nextId <= MaxIds
        /\ rpc' = rpc_call(rpc, onComplete)
        /\ UNCHANGED pluginVars

\* a message with an id arrives: a result or an error object, for any id
RpcReceive ==
    \E id \in 1..MaxIds, outcome \in {"result", "error"} :
        /\ rpc' = rpc_receive(rpc, id, outcome)
        /\ UNCHANGED pluginVars

\* the server terminates (crash or deliberate stop) with requests pending
RpcServerGone ==
    /\ \E id \in 1..MaxIds : rpc.registry[id] # NULL
    /\ rpc' = rpc_server_gone(rpc)
    /\ UNCHANGED pluginVars

InitRpc == InitState(TextConfigs, {<<>>}, {FALSE})

NextRpc == RpcCall \/ RpcReceive \/ RpcServerGone

\* the request registry of one channel
SpecRpc == InitRpc /\ [][NextRpc]_vars

\* the server answers or terminates: no entry stays pending for ever
SpecRpcFair == SpecRpc /\ WF_vars(RpcServerGone)

\* ------------------------------------------------------------------ properties
ReqCodeAction == <<"request", "textDocument/codeAction">>
ReqExecute == <<"request", "workspace/executeCommand">>
ReqFormat == <<"request", "textDocument/formatting">>
ReqLens == <<"request", "textDocument/codeLens">>
DidOpen == <<"notify", "textDocument/didOpen">>
Saved == <<"save", "document_save_file">>

\* the titles the last callback performed
PerformedIn(tr) == { e[2] : e \in { x \in Range(tr) : x[1] = "perform" } }

\* the configured pattern matches the title
OnSavePatternMatches(title) == title \in MatchSet(config.command_on_save_regex)

\* C1: within one save cycle (from the creation of the performed-title set to its
\* removal) no code-action title is performed more than once, whatever the responses offer.
C1_NoTitlePerformedTwice ==
    \A i, j \in 1..Len(performLog) : performLog[i] = performLog[j] => i = j

\* C1 witness: a response re-offers a matching title that this cycle has already
\* performed, and the callback that received it did not perform it again.
C1_Witness ==
    /\ code_actions_performed.exists
    /\ delivered # <<>>
    /\ \E i \in 1..Len(delivered[1]) :
          /\ delivered[1][i].title \in Range(performLog)
          /\ OnSavePatternMatches(delivered[1][i].title)
          /\ delivered[1][i].title \notin PerformedIn(trace)

\* C2: one save cycle performs at most as many request-perform iterations as there are
\* distinct matching titles offered to it, so the loop is left after that many iterations.
C2_IterationsBounded ==
    /\ Len(performLog) <= Cardinality(offered)
    /\ Range(performLog) \subseteq offered

\* C2 witness: two iterations done, two distinct matching titles offered, and the last
\* response offered a performed title again without starting a third iteration.
C2_Witness ==
    /\ Len(performLog) = 2
    /\ Cardinality(offered) = 2
    /\ delivered # <<>>
    /\ PerformedIn(trace) = {}
    /\ \E i \in 1..Len(delivered[1]) : delivered[1][i].title \in Range(performLog)

C4_FirstMatchingUnperformed ==
    [][ \A t \in PerformedIn(trace') :
          /\ delivered' # <<>>
          /\ PerformedIn(trace') = {t}
          /\ \E i \in 1..Len(delivered'[1]) :
                /\ delivered'[1][i].title = t
                /\ \A j \in 1..(i - 1) :
                      ~ ( /\ OnSavePatternMatches(delivered'[1][j].title)
                          /\ delivered'[1][j].title \notin Range(code_actions_performed.names) )
          /\ OnSavePatternMatches(t)
          /\ t \notin Range(code_actions_performed.names)
          /\ code_actions_performed'.names = Append(code_actions_performed.names, t)
          /\ trace'[1] = <<"perform", t>>
      ]_vars

\* C4 witness (the scenario of the claim): the pattern matches only "Organize Imports",
\* it was performed once, the next response [Organize Imports, Add License] performs
\* nothing and the format is requested.
C4_Witness ==
    /\ config.command_on_save_regex = "organize"
    /\ performLog = <<"Organize Imports">>
    /\ delivered # <<>>
    /\ Len(delivered[1]) = 2
    /\ delivered[1][1].title = "Organize Imports"
    /\ delivered[1][2].title = "Add License"
    /\ trace = <<ReqFormat>>

\* the before-save event may launch code actions
CodeActionsOnSave ==
    /\ srvState = "running"
    /\ ~code_actions_performed.exists
    /\ config.code_action_enable
    /\ config.command_on_save_regex # NULL

CommandTitled(list, t) ==
    list[CHOOSE i \in 1..Len(list) : list[i].title = t /\ \A j \in 1..(i - 1) : list[j].title # t]

\* the edits applied and executeCommand requests sent by the last callback, in order
EditAndExecute(tr) == SelectSeq(tr, LAMBDA e : e[1] = "applyEdit" \/ e = ReqExecute)

\* C7: performing a command applies its inline edit (when present) before the
\* workspace/executeCommand request, and sends that request exactly when the command
\* has an identifier: edit only sends no request, identifier only applies no edit.
C7_EditThenExecute ==
    /\ PerformedIn(trace) = {} => EditAndExecute(trace) = <<>>
    /\ \A t \in PerformedIn(trace) :
          /\ delivered # <<>>
          /\ LET cmd == CommandTitled(delivered[1], t)
             IN EditAndExecute(trace) =
                   (IF cmd.edit # NULL THEN << <<"applyEdit", cmd.edit>> >> ELSE <<>>)
                   \o (IF cmd.command # NULL THEN <<ReqExecute>> ELSE <<>>)

\* C7 witness: a command with an edit and an identifier was performed.
C7_Witness ==
    trace = << <<"perform", "Fix All">>, <<"applyEdit", "edit:fix">>, ReqExecute >>

C9_DeliveredIsOwnResponse ==
    (delivered # <<>> /\ lastRaw # <<>>) =>
        delivered[1] = code_action_parse(<<>>, lastRaw[1], 1)

\* a response element that the normalisation keeps
Acceptable(e) ==
    /\ e.title # NULL
    /\ \/ e.cmdType \in {"string", "object"} /\ e.cmdId # NULL
       \/ e.edit # NULL

\* the index of the k-th kept element of a response
KeptIndex(q, k) ==
    CHOOSE i \in 1..Len(q) :
        /\ Acceptable(q[i])
        /\ Cardinality({ j \in 1..i : Acceptable(q[j]) }) = k

\* C6: an element of the response becomes a cached command if and only if it has a
\* title and a command identifier (the string, or the nested command.command) or an
\* edit; the others are dropped and the cached commands keep the response order.
C6_Normalisation ==
    trace # <<>> =>
        /\ Len(code_actions) = Cardinality({ i \in 1..Len(input) : Acceptable(input[i]) })
        /\ \A k \in 1..Len(code_actions) :
              LET e == input[KeptIndex(input, k)]
              IN /\ code_actions[k].title = e.title
                 /\ code_actions[k].command = e.cmdId
                 /\ e.cmdType # "string" => code_actions[k].edit = e.edit

\* C6 witness: a dropped element, then an element with a title and only an edit, which
\* is the one cached command.
C6_Witness ==
    /\ trace # <<>>
    /\ Len(input) = 2
    /\ ~Acceptable(input[1])
    /\ input[2].cmdType = "absent" /\ input[2].edit # NULL /\ input[2].title # NULL
    /\ Len(code_actions) = 1

\* C10: a code-lens refresh on a valid document with a running session and the feature
\* enabled sends didOpen first if the document is not open, empties the command cache
\* and sends exactly one textDocument/codeLens request; with the feature disabled it
\* sends nothing and leaves the cache and the open state as they are.
C10_Refresh ==
    [][ ( /\ UpdateIdle \/ (RetryTick /\ docCurrent)
          /\ docValid /\ srvState = "running" ) =>
            IF config.code_lens_enable
            THEN /\ trace' = (IF docOpen THEN <<>> ELSE <<DidOpen>>) \o <<ReqLens>>
                 /\ commands' = <<>>
                 /\ docOpen'
                 /\ pending'[ReqCodeLens] = pending[ReqCodeLens] + 1
            ELSE /\ trace' = <<>>
                 /\ commands' = commands
                 /\ docOpen' = docOpen
                 /\ pending' = pending
      ]_vars

\* C10 witness: a refresh of a document that was not open sent didOpen and then the
\* request, and emptied a cache whose annotations are still shown.
C10_Witness ==
    /\ trace = <<DidOpen, ReqLens>>
    /\ commands = <<>>
    /\ annotations # NoAnnotations
    /\ pending[ReqCodeLens] = 1

\* the commands of one textDocument/codeLens response, in response order
LensCommandsOf(items) ==
    LET kept == SelectSeq(items, LAMBDA e : e.title # NULL /\ e.command # NULL)
    IN [i \in 1..Len(kept) |-> Command(kept[i].title, kept[i].command, FALSE, NULL, kept[i].line)]

\* the lines that have a cached code-lens command
CachedLines == { commands[i].line : i \in 1..Len(commands) }

\* C11: after a code-lens response was processed the command cache holds the commands
\* of that one response, never the union or a mix of two responses.
C11_CacheIsOneResponse ==
    (lastRaw # <<>> /\ delivered = <<>>) => commands = LensCommandsOf(lastRaw[1])

\* C12: between callbacks the lines that carry a code-lens annotation are exactly the
\* lines that have cached commands.
C12_AnnotationsMatchCache ==
    \A l \in AnnotationLines : (annotations[l] # <<>>) <=> (l \in CachedLines)

\* the annotation text that lists the titles of the cached commands of a line
ExpectedAnnotation(l) ==
    LET at == SelectSeq(commands, LAMBDA c : c.line = l)
    IN [i \in 1..(2 * Len(at)) |->
          IF i = 1 THEN "LSP Commands: "
          ELSE IF i % 2 = 0 THEN at[i \div 2].title ELSE " | "]

\* C13: after a successful code-lens response the annotation of every line lists the
\* titles of all cached commands anchored at that line, in response order, joined by
\* " | "; a line without commands has no annotation.
C13_AnnotationListsLine ==
    trace = << <<"parsed", "code_lens_cb">> >> =>
        \A l \in AnnotationLines : annotations[l] = ExpectedAnnotation(l)

\* the positions of the cached commands anchored at the queried line
AnchoredAt(line) == { i \in 1..Len(commands) : commands[i].line = line }

\* C14: the per-line query appends to the caller's list exactly the cached commands
\* anchored at the queried line, in cache order, and nothing for a line without one.
C14_QueryReturnsLine ==
    trace = << <<"query", "lsp_code_lens_append_commands">> >> =>
        LET cmds == delivered[1]
            hits == AnchoredAt(last_click_line)
        IN /\ Len(menu) = Len(cmds) + Cardinality(hits)
           /\ \A i \in 1..Len(cmds) : menu[i] = cmds[i]
           /\ \A i \in hits :
                 menu[Len(cmds) + Cardinality({ j \in hits : j <= i })] = commands[i]

\* C14 witness: the cache holds commands at lines 3, 7, 3; the query for line 3 after a
\* caller's own command returned that command and the two of line 3.
C14_Witness ==
    /\ trace = << <<"query", "lsp_code_lens_append_commands">> >>
    /\ Len(commands) = 3
    /\ commands[1].line = 3 /\ commands[2].line = 7 /\ commands[3].line = 3
    /\ last_click_line = 3
    /\ Len(delivered[1]) = 1
    /\ Len(menu) = 3

\* the number of textDocument/codeLens requests among the effects of a callback
LensRequestsIn(tr) == Cardinality({ i \in 1..Len(tr) : tr[i] = ReqLens })

\* C15: a refresh while the session is not running sends nothing and schedules a retry;
\* a retry tick stops without a request when the document is not current or the server
\* is not usable, is re-armed while the server is usable but not running, and issues
\* one refresh and stops when the session is running; once the session is running with
\* the document current and a retry pending, a codeLens request is eventually sent.
C15_RetryMachine ==
    /\ [][ /\ (UpdateIdle /\ docValid /\ srvState # "running") =>
                (trace' = <<>> /\ retryTimers' = retryTimers + 1)
           /\ RetryTick =>
                IF ~docCurrent \/ srvState = "crashed"
                THEN trace' = <<>> /\ retryTimers' = retryTimers - 1
                ELSE IF srvState # "running"
                THEN trace' = <<>> /\ retryTimers' = retryTimers
                ELSE /\ retryTimers' = retryTimers - 1
                     /\ LensRequestsIn(trace') = (IF config.code_lens_enable THEN 1 ELSE 0)
         ]_vars
    /\ (srvState = "running" /\ docCurrent /\ retryTimers > 0 /\ config.code_lens_enable)
          ~> (ReqLens \in Range(trace) \/ ~docCurrent \/ srvState # "running")

\* C15 witness: the session is running, the document is current and open, no retry is
\* pending any more, and the last callback sent the second codeLens request in flight.
C15_Witness ==
    /\ trace = <<ReqLens>>
    /\ srvState = "running" /\ docCurrent /\ docOpen
    /\ retryTimers = 0
    /\ pending[ReqCodeLens] = 2

\* C16: the retry timers pending for a document never exceed one.
C16_AtMostOneRetry == retryTimers <= 1

LensCallback == <<"callback", "code_lens_cb">>

\* C17: a code-lens response that arrives after its document was closed, or while no
\* server is running for it, or that carries an error, changes neither the command
\* cache nor an annotation nor the open state, and sends nothing.
C17_LateResponseIsNoOp ==
    [][ \A resp \in LensResponses :
          (CodeLensResponseOf(resp) /\ (resp.error \/ ~docValid \/ srvState # "running")) =>
              /\ commands' = commands
              /\ annotations' = annotations
              /\ docOpen' = docOpen
              /\ styleOffset' = styleOffset
              /\ trace' = <<LensCallback>>
      ]_vars

\* C17 witness: the response of a second request arrived after the document was
\* closed; the cache and the annotation of the first response are as they were.
C17_Witness ==
    /\ trace = <<LensCallback>>
    /\ ~docValid
    /\ srvState = "running"
    /\ Len(commands) = 1
    /\ annotations[3] # <<>>
    /\ pending[ReqCodeLens] = 0 /\ gone[ReqCodeLens] = 0

\* the titles of the code-lens commands the server reports for the tracked document
OwnLensTitles == { e.title : e \in LensEntries }

\* C18: while the document is current, a per-line query returns only commands parsed
\* from a code-lens response for that document.
C18_QueryOnlyOwnDocument ==
    (docValid /\ docCurrent) =>
        \A line \in QueryLines :
            \A c \in Range(lsp_code_lens_append_commands(Cur, <<>>, line)) :
                c.title \in OwnLensTitles

\* ------------------------------------------------------------------ open mark
DidClose == <<"notify", "textDocument/didClose">>
DidChange == <<"notify", "textDocument/didChange">>
DidSave == <<"notify", "textDocument/didSave">>

\* the notifications among the effects of a callback, in order
NotificationsOf(effects) == SelectSeq(effects, LAMBDA e : e[1] = "notify")

\* lsp_sync_is_document_open(doc) at the moment the i-th effect of a callback is emitted:
\* the last didOpen or didClose the callback sent before it, else the mark the callback found
OpenAt(before, effects, i) ==
    LET marks == { j \in 1..(i - 1) : effects[j] \in {DidOpen, DidClose} }
    IN IF marks = {} THEN before
       ELSE effects[CHOOSE j \in marks : \A k \in marks : k <= j] = DidOpen

\* C19: a didChange or didSave notification is sent only while the document is marked
\* open; an edit or a save of a document that is not open sends didOpen first.
C19_SyncOnlyWhenOpen ==
    [][\A i \in 1..Len(trace') :
          trace'[i] \in {DidChange, DidSave} => OpenAt(docOpen, trace', i)]_vars

\* an edit or a save of a document that was not open sent didOpen and then the notification
C19_Witness ==
    \E i \in 1..Len(trace) :
        /\ trace[i] \in {DidChange, DidSave}
        /\ \E j \in 1..(i - 1) : trace[j] = DidOpen

\* C20: a textDocument/codeLens or textDocument/codeAction request is sent only while the
\* document is marked open against the session the request goes to.
C20_RequestsOnlyWhenOpen ==
    [][\A i \in 1..Len(trace') :
          trace'[i] \in {ReqCodeAction, ReqLens} => OpenAt(docOpen, trace', i)]_vars

\* ------------------------------------------------------------------ content changes
\* C21: while the document is open at the running server, replaying the didChange
\* notifications sent so far on the text the server had yields the buffer text, under
\* incremental and under full sync.
C21_RoundTrip == (docOpen /\ srvState = "running") => serverText = buffer

\* a range on the second line was deleted under incremental sync and the copies agree
C21_Witness ==
    /\ docOpen /\ srvState = "running" /\ use_incremental_sync
    /\ serverText = buffer
    /\ \E i \in 1..Len(changes) :
           changes[i].text = <<>> /\ changes[i].start.line = 1 /\ changes[i].end.line = 1

\* the content changes on_editor_notify sends for one notification of a callback of its own
ChangesAt(s, modificationType, position, length, text) ==
    on_editor_notify([s EXCEPT !.trace = <<>>, !.changes = <<>>],
                     modificationType, position, length, text).changes

\* the state in which the after-notification of a modification arrives
AfterBefore(s, modificationType, position, length, text) ==
    on_editor_notify(s, modificationType, position, length, text)

\* C22: each edit produces one didChange: a deletion under incremental sync at the
\* before-delete event, with the range on the unchanged buffer and empty text, and nothing
\* at the after-delete event; a deletion under full sync nothing at the before-delete event
\* and the whole remaining text at the after-delete event; an insertion once, at the
\* after-insert event.
C22_OneChangePerEdit ==
    (docValid /\ srvState = "running") =>
        /\ \A position \in 0..Len(buffer), length \in 1..MaxText :
              position + length <= Len(buffer) =>
                  LET text == SubSeq(buffer, position + 1, position + length)
                      before == ChangesAt(Cur, "SC_MOD_BEFOREDELETE", position, length, text)
                      mid == SCI_DELETERANGE(
                                 AfterBefore(Cur, "SC_MOD_BEFOREDELETE", position, length, text),
                                 position, length)
                      after == ChangesAt(mid, "SC_MOD_DELETETEXT", position, length, text)
                  IN IF use_incremental_sync
                     THEN /\ before = << [start |-> lsp_utils_scintilla_pos_to_lsp(buffer, position),
                                          end |-> lsp_utils_scintilla_pos_to_lsp(buffer, position + length),
                                          text |-> <<>>] >>
                          /\ after = <<>>
                     ELSE /\ before = <<>>
                          /\ Len(after) = 1
                          /\ after[1].text = mid.buffer
        /\ \A position \in 0..Len(buffer), text \in InsertTexts :
              LET before == ChangesAt(Cur, "SC_MOD_BEFOREINSERT", position, Len(text), text)
                  mid == SCI_INSERTTEXT(
                             AfterBefore(Cur, "SC_MOD_BEFOREINSERT", position, Len(text), text),
                             position, text)
                  after == ChangesAt(mid, "SC_MOD_INSERTTEXT", position, Len(text), text)
              IN /\ before = <<>>
                 /\ Len(after) = 1
                 /\ after[1].text = IF use_incremental_sync THEN text ELSE mid.buffer

\* a deletion was reported once, as a range with empty text, under incremental sync
C22_Witness ==
    /\ use_incremental_sync
    /\ Len(changes) = 1
    /\ changes[1].text = <<>>
    /\ changes[1].start # changes[1].end

\* ------------------------------------------------------------------ lazy open
\* C31: the first edit of a document that is not open at its running server sends didOpen
\* with the text the buffer had before the edit and then the didChange of the edit, after
\* which the server's text is the buffer's text after the edit.
C31_LazyOpenCarriesPreEditText ==
    [][((TextInsert \/ TextDelete) /\ srvState = "running" /\ ~docOpen) =>
           /\ NotificationsOf(trace') = <<DidOpen, DidChange>>
           /\ opened' = <<buffer>>
           /\ buffer' # buffer
           /\ docOpen'
           /\ serverText' = buffer']_vars

\* a range was deleted from a document that was not open, under incremental sync: the
\* server was given the longer text and the change that shortens it
C31_Witness ==
    /\ use_incremental_sync
    /\ NotificationsOf(trace) = <<DidOpen, DidChange>>
    /\ Len(opened) = 1 /\ Len(opened[1]) > Len(buffer)
    /\ changes[1].text = <<>>
    /\ serverText = buffer

\* ------------------------------------------------------------------ request without a session
\* C32: a code-action request made while no session is running for the document sends
\* nothing, registers no request, empties the result list and calls the resolved callback
\* at once with the empty list, which performs nothing.
C32_RequestWithoutSession ==
    [][(InvokeCommandKb /\ srvState # "running") =>
           /\ trace' = <<>>
           /\ pending' = pending /\ gone' = gone
           /\ code_actions' = <<>>
           /\ delivered' = << <<>> >>]_vars

\* the keybinding was pressed after the servers were stopped, while an earlier request of
\* the keybinding, whose list the cache held, was still unanswered
C32_Witness ==
    /\ srvState # "running"
    /\ delivered = << <<>> >>
    /\ code_actions = <<>>
    /\ lastRaw = <<>>
    /\ gone[ReqCodeActionKb] > 0

\* C33: every code-action request calls its resolved callback once: at once when no
\* session is running, otherwise when its response arrives, be it a command array, a
\* result that is no array, or an error.
C33_ResolvedCallbackOnce ==
    [][/\ InvokeCommandKb => ((delivered' # <<>>) <=> (srvState # "running"))
       /\ CodeActionResponse(ReqCodeActionKb, MenuResponses) => delivered' # <<>>]_vars

\* ------------------------------------------------------------------ end of the save cycle
\* C34: every save cycle that before-save starts ends: the performed-title set is removed
\* by on_save_finish, also after an error response or a stop of the session, and without
\* a later activation of the document.
C34_SaveCycleEnds ==
    code_actions_performed.exists ~> ~code_actions_performed.exists

\* C35: at most one save cycle is in progress: a before-save event that finds the
\* performed-title set starts no request and no format and leaves the set as it is, and
\* the callback that saves the document at the end of a cycle starts no new cycle and
\* leaves no set behind.
C35_OneCycleAtATime ==
    [][/\ (BeforeSave /\ code_actions_performed.exists) =>
              /\ trace' = <<>>
              /\ pending' = pending
              /\ code_actions_performed' = code_actions_performed
       /\ Saved \in Range(trace') =>
              /\ ReqCodeAction \notin Range(trace')
              /\ ReqFormat \notin Range(trace')
              /\ ~code_actions_performed'.exists]_vars

\* a cycle ended with the save of the document while the server was running and code
\* actions and formatting were enabled on save: the before-save event of that save
\* started nothing
C35_Witness ==
    /\ trace = <<Saved>>
    /\ ~code_actions_performed.exists
    /\ srvState = "running"
    /\ config.code_action_enable /\ config.command_on_save_regex # NULL
    /\ config.document_formatting_enable /\ config.format_on_save

\* C36: a before-save event with a running server that launches neither a code-action
\* request nor a format, because neither is enabled on save, leaves no performed-title set
\* behind, so that a later activation of the document saves nothing.
C36_IdleBeforeSaveLeavesNoCycle ==
    [][/\ ( /\ BeforeSave
            /\ srvState = "running"
            /\ ~code_actions_performed.exists
            /\ ~(config.code_action_enable /\ config.command_on_save_regex # NULL)
            /\ ~(config.document_formatting_enable /\ config.format_on_save) )
              => ~code_actions_performed'.exists
       /\ ( /\ DocumentActivate
            /\ ~(config.code_action_enable /\ config.command_on_save_regex # NULL)
            /\ ~(config.document_formatting_enable /\ config.format_on_save) )
              => Saved \notin Range(trace')]_vars

\* ------------------------------------------------------------------ unsaved changes
\* C37: every change a save cycle makes to the document (a performed code action, the
\* final format) is followed by a save: once the cycle has ended, the performed-title set
\* being removed, the buffer holds no change of the cycle that was not saved.
C37_CycleChangesAreSaved ==
    (docValid /\ unsaved) => code_actions_performed.exists

C39_PerformOnlyWhenRunning ==
    [][\A i \in 1..Len(trace') :
          trace'[i][1] \in {"perform", "applyEdit"} => srvState = "running"]_vars

\* C40: when an item of the commands menu is activated, its command is still owned by
\* the cache the menu was built from: neither a code-lens refresh nor a new code-action
\* request after the menu was built has freed it.
C40_MenuCommandsAreLive ==
    [][\A i \in 1..Len(menu) : MenuActivateItem(i) => menuOwner[i] # "freed"]_vars

\* ------------------------------------------------------------------ debounce
\* C27: at most one refresh timer of the document is pending at any moment.
C27_AtMostOneRefreshTimer == refreshTimers <= 1

\* ------------------------------------------------------------------ closed document
\* the kinds of effect a callback has on the server or the file
ActingKinds == {"request", "perform", "save"}

\* C28: a callback that fires after its document was closed sends no request, performs
\* no command and saves nothing, and no command is performed while the session is not
\* running.
C28_ClosedCallbacksAreNoOps ==
    [][/\ ~docValid => \A i \in 1..Len(trace') : trace'[i][1] \notin ActingKinds
       /\ srvState # "running" => \A i \in 1..Len(trace') : trace'[i][1] # "perform"]_vars

\* after the document was closed, a code-action response with a matching command reached
\* on_code_actions_received while the session was running
C28_Witness ==
    /\ ~docValid
    /\ srvState = "running"
    /\ delivered # <<>>
    /\ \E i \in 1..Len(delivered[1]) :
           g_regex_match_simple(config.command_on_save_regex, delivered[1][i].title)

\* ------------------------------------------------------------------ save as
\* C24: with the server running, before-save-as sends didClose and the server no longer
\* holds the document under its old path; the save of a document that is not open sends
\* didOpen and then didSave, and the server holds the document under its new path.
C24_SaveAsOrdering ==
    [][/\ (BeforeSaveAsNew /\ srvState = "running") =>
              /\ NotificationsOf(trace') = <<DidClose>>
              /\ ~docOpen' /\ serverUri' = NULL
       /\ (DocumentSave /\ srvState = "running" /\ ~docOpen) =>
              /\ NotificationsOf(trace') = <<DidOpen, DidSave>>
              /\ docOpen' /\ serverUri' = real_path]_vars

\* the document was saved under a new path while closed at the server by a save as
C24_Witness ==
    /\ NotificationsOf(trace) = <<DidOpen, DidSave>>
    /\ real_path = "/b.c"
    /\ serverUri = "/b.c"

\* ------------------------------------------------------------------ restart
\* C25: a save of the configuration file or of a server's init file, and a restart by the
\* user, stop the servers and reset the sync state: the document is not marked open, no
\* request is pending at the new session and no didSave is sent; the restart also shows
\* the current document again, which launches its server and arms the code-lens retry.
C25_RestartResets ==
    [][/\ (ServersFileSaved \/ RestartServers) =>
              /\ ~docOpen' /\ serverUri' = NULL
              /\ srvState' \in {"stopped", "starting"}
              /\ \A k \in ReqKinds : pending'[k] = 0
              /\ NotificationsOf(trace') = <<>>
       /\ ServersFileSaved => srvState' = "stopped"
       /\ (RestartServers /\ docValid /\ docCurrent) =>
              /\ srvState' = "starting"
              /\ retryTimers' > retryTimers]_vars

\* the servers were restarted by the user while the document was open at a running server
C25_Witness ==
    /\ srvState = "starting"
    /\ ~docOpen
    /\ retryTimers > 0
    /\ \E k \in ReqKinds : gone[k] > 0

\* ------------------------------------------------------------------ session caches
\* C26: once the session has terminated and until a fresh one runs, the code-lens cache
\* and the code-action cache hold no command.
C26_CachesClearedOnTermination ==
    srvState # "running" => (commands = <<>> /\ code_actions = <<>>)

\* ------------------------------------------------------------------ filetype
\* C23: when the filetype of an open document changes to one of a different server and
\* the old server runs, didClose is sent first, any didOpen comes after it, and the old
\* server no longer holds the document; the document is never held open by both servers;
\* when the document is not open, or both filetypes have the same server, nothing is sent
\* and no server changes its state.
C23_FiletypeChange ==
    [][/\ \A ft \in Filetypes :
              FiletypeSet(ft) =>
                  LET same == ServerOf(ft) = ServerOf(filetype)
                      sent == NotificationsOf(trace')
                  IN /\ (~docOpen \/ same) =>
                            /\ sent = <<>>
                            /\ srvState' = (IF same THEN srvState ELSE altSrvState)
                            /\ altSrvState' = (IF same THEN altSrvState ELSE srvState)
                     /\ (docOpen /\ ~same /\ srvState = "running") =>
                            /\ sent \in {<<DidClose>>, <<DidClose, DidOpen>>}
                            /\ altServerUri' = NULL
       /\ ~(serverUri' # NULL /\ altServerUri' # NULL)]_vars

\* the document was closed at the running server of its old filetype and opened at the
\* running server of its new one
C23_Witness ==
    /\ NotificationsOf(trace) = <<DidClose, DidOpen>>
    /\ srvState = "running" /\ altSrvState = "running"
    /\ serverUri = real_path /\ altServerUri = NULL

\* ------------------------------------------------------------------ registry
\* C29: the completion callback of a request fires at most once, and it is the callback
\* registered under the id of the response, whatever the order of the responses.
C29_CallbackOncePerId ==
    \A id \in 1..MaxIds :
        /\ Len(rpc.fired[id]) <= 1
        /\ \A i \in 1..Len(rpc.fired[id]) : rpc.fired[id][i][1] = rpc.issued[id]
        /\ rpc.registry[id] # NULL => rpc.fired[id] = <<>>

\* three requests of different callbacks were pending together and the last one was
\* answered first
C29_Witness ==
    /\ rpc.issued = (1 :> ReqCodeLens @@ 2 :> ReqCodeActionSave @@ 3 :> ReqExecuteSave)
    /\ rpc.fired[3] = << <<ReqExecuteSave, "result">> >>
    /\ rpc.registry[1] # NULL /\ rpc.registry[2] # NULL

\* C30: when the server terminates, every pending request is resolved once with the
\* server-gone error and removed, a later response for it fires nothing, and every issued
\* request is resolved in the end.
C30_ServerGoneResolvesAll ==
    /\ [][RpcServerGone =>
              \A id \in 1..MaxIds :
                  /\ rpc'.registry[id] = NULL
                  /\ rpc.registry[id] # NULL =>
                         rpc'.fired[id] = << <<rpc.issued[id], "server gone">> >>]_vars
    /\ [][\A id \in 1..MaxIds :
              rpc.fired[id] # <<>> => rpc'.fired[id] = rpc.fired[id]]_vars
    /\ \A id \in 1..MaxIds : (rpc.issued[id] # NULL) ~> (rpc.fired[id] # <<>>)

\* the server terminated with three requests pending
C30_Witness ==
    \A id \in 1..MaxIds : Len(rpc.fired[id]) = 1 /\ rpc.fired[id][1][2] = "server gone"

====
